---- MODULE Spec2Model ----
(***************************************************************************)
(* Editable-region enforcement of the code playground                      *)
(* (frontend/src/components/CodePlaygroundView.tsx and its siblings).      *)
(*                                                                         *)
(* A text is a non-empty sequence of lines (code.split("\n")).  A line is  *)
(* abstracted to what the code reads from it: which sentinels it contains  *)
(* (s) and which text it carries (c, 0 = none, 1 and 2 = two texts).       *)
(***************************************************************************)
EXTENDS Integers, Sequences, FiniteSets, TLC

\* ---------------------------------------------------------------- bounds
\* Longest text handed to the parsers in the parser specification.
MaxLen == 5
\* Largest line number of a region / line count in the clamp specification.
MaxLine == 5
\* Longest region list in the clamp specification.
MaxRegions == 2
\* Most lines of the model in the guard specification.
MaxDoc == 3
\* Most simultaneous selections (multi-cursor) in the guard specification.
MaxSel == 2
\* Most lines of the editor's model in the editor specification.
MaxLines == 3
\* Most lines of a pasted text.
MaxPaste == 2

\* Longest lineDescriptions list in the overlay specification.
MaxAnnotations == 2
\* Most entries of one annotation's lines array.
MaxLineSet == 2
\* Largest line number an annotation names or the mouse hovers.
MaxHoverLine == 2

\* Most steps of a workshop.
MaxSteps == 2
\* Most editor instances created in one behaviour of a workshop component.
MaxMounts == 4

\* Most handleSelectStep timers pending at once.
MaxTimers == 2
\* Most line descriptions of a step in the author specification.
MaxDescriptions == 1
\* Most Editor instances created in one behaviour of the workshop editor.
MaxEditors == 2

\* Begin-line metadata: characters after the begin-sentinel, blocks per text.
MaxRest == 4

MaxBlocks == 2

\* Line-number input: characters of the Lines input.
MaxInput == 5

\* Workshop store: distinct workshop ids.
MaxWorkshops == 2

\* Guard lifecycle: decoration ids handed out by one editor.
MaxDecorationIds == 6

\* ------------------------------------------------------------------ lines
Sentinels == {"N", "B", "E", "BE"}

Line(s, c) == [s |-> s, c |-> c]

\* line.includes("// @editable-begin")
hasBegin(line) == line.s \in {"B", "BE"}

\* line.includes("// @editable-end")
hasEnd(line) == line.s \in {"E", "BE"}

\* The lines used as parser inputs: a plain line, each sentinel alone, and a
\* line holding both sentinels.
ParseLines == {Line("N", 1), Line("B", 1), Line("E", 1), Line("BE", 1)}

TextsUpTo(n) == UNION {[1..k -> ParseLines] : k \in 1..n}

Region(s, e) == [start |-> s, end |-> e]

\* The line numbers a region covers.
RegionLines(r) == r.start..r.end

\* --------------------------------------------------------------- parsers
\* Mutant of parseStep: the begin branch records the 0-based index of the
\* sentinel line instead of index + 1.
parseStepZeroBased(acc, line, index) ==
    IF hasBegin(line)
      THEN [acc EXCEPT !.currentStart = <<index>>]
      ELSE IF hasEnd(line) /\ acc.currentStart # <<>>
        THEN [regions |-> Append(acc.regions, Region(acc.currentStart[1], index)),
              currentStart |-> <<>>]
        ELSE acc

\* Mutant of parseStep: the end branch lacks the currentStart !== null test
\* (a region without an open start gets start 0).
parseStepUnguarded(acc, line, index) ==
    IF hasBegin(line)
      THEN [acc EXCEPT !.currentStart = <<index + 1>>]
      ELSE IF hasEnd(line)
        THEN [regions |-> Append(acc.regions,
                                 Region(IF acc.currentStart # <<>>
                                          THEN acc.currentStart[1] ELSE 0,
                                        index)),
              currentStart |-> <<>>]
        ELSE acc

\* Mutant of parseStep: the end branch pushes the region but leaves
\* currentStart set.
parseStepKeepOpen(acc, line, index) ==
    IF hasBegin(line)
      THEN [acc EXCEPT !.currentStart = <<index + 1>>]
      ELSE IF hasEnd(line) /\ acc.currentStart # <<>>
        THEN [acc EXCEPT !.regions = Append(acc.regions,
                                            Region(acc.currentStart[1], index))]
        ELSE acc

\* One iteration of lines.forEach((line, index) => ...) of the region parser.
\* acc.currentStart is <<>> for null and <<n>> for the number n.
parseStep(acc, line, index) ==
    IF hasBegin(line)
      THEN [acc EXCEPT !.currentStart = <<index + 1>>]
      ELSE IF hasEnd(line) /\ acc.currentStart # <<>>
        THEN [regions |-> Append(acc.regions, Region(acc.currentStart[1], index)),
              currentStart |-> <<>>]
        ELSE acc

\* lines.forEach from line i on; the result is the accumulator after the
\* last line.
RECURSIVE parseFrom(_, _, _)
parseFrom(lines, i, acc) ==
    IF i > Len(lines) THEN acc
    ELSE parseFrom(lines, i + 1, parseStep(acc, lines[i], i - 1))

\* Mutant of parseRegions: a region still open after the last line is closed
\* at the end of the text instead of being dropped.
parseRegionsFlush(lines) ==
    LET acc == parseFrom(lines, 1, [regions |-> <<>>, currentStart |-> <<>>]) IN
    IF acc.currentStart # <<>>
      THEN Append(acc.regions, Region(acc.currentStart[1], Len(lines)))
      ELSE acc.regions

\* The region parser of CodePlaygroundView / CodeEditingView: the value
\* handed to setEditableRegions for the text `lines`.
parseRegions(lines) ==
    parseFrom(lines, 1, [regions |-> <<>>, currentStart |-> <<>>]).regions

\* One iteration of the forEach of workshopService.getEditableRegions.
serviceStep(acc, line, index) ==
    LET lineNumber == index + 1 IN
    IF hasBegin(line)
      THEN [acc EXCEPT !.currentRegion = <<lineNumber + 1>>]
      ELSE IF hasEnd(line) /\ acc.currentRegion # <<>>
        THEN [regions |-> Append(acc.regions,
                                 Region(acc.currentRegion[1], lineNumber - 1)),
              currentRegion |-> <<>>]
        ELSE acc

RECURSIVE serviceFrom(_, _, _)
serviceFrom(lines, i, acc) ==
    IF i > Len(lines) THEN acc.regions
    ELSE serviceFrom(lines, i + 1, serviceStep(acc, lines[i], i - 1))

\* workshopService.getEditableRegions on the text `lines`.
getEditableRegions(lines) ==
    serviceFrom(lines, 1, [regions |-> <<>>, currentRegion |-> <<>>])

\* ---------------------------------------------------------------- clamp
Min(a, b) == IF a <= b THEN a ELSE b

Max(a, b) == IF a >= b THEN a ELSE b

\* The .map callback of validatedRegions: start and end are both forced
\* into 1..totalLines.
clampRegion(region, totalLines) ==
    [region EXCEPT !.start = Min(Max(1, region.start), totalLines),
                   !.end = Min(Max(1, region.end), totalLines)]

\* const validatedRegions = editableRegions.map(...).filter(start <= end)
validatedRegions(regions, totalLines) ==
    SelectSeq([i \in 1..Len(regions) |-> clampRegion(regions[i], totalLines)],
              LAMBDA r : r.start <= r.end)

\* A whole-line decoration of the lines startLine..endLine.
RangeDecoration(className, startLine, endLine) ==
    [className |-> className, startLine |-> startLine, endLine |-> endLine]

\* const editableDecorations = validatedRegions.map(...)
editableDecorations(regions) ==
    [i \in 1..Len(regions) |->
        RangeDecoration("editable-region", regions[i].start, regions[i].end)]

\* for (const region of validatedRegions) { ... lastEnd = region.end } from
\* region i on.
RECURSIVE readOnlyFrom(_, _, _)
readOnlyFrom(regions, i, acc) ==
    IF i > Len(regions) THEN acc
    ELSE readOnlyFrom(regions, i + 1,
           [decorations |->
              IF regions[i].start > acc.lastEnd + 1
                THEN Append(acc.decorations,
                            RangeDecoration("readonly-region", acc.lastEnd + 1,
                                            regions[i].start - 1))
                ELSE acc.decorations,
            lastEnd |-> regions[i].end])

\* Mutant of readOnlyDecorations: the final read-only range is not added.
readOnlyDecorationsNoFinal(regions, totalLines) ==
    readOnlyFrom(regions, 1, [decorations |-> <<>>, lastEnd |-> 0]).decorations

\* readOnlyDecorations as the guard effect builds it.
readOnlyDecorations(regions, totalLines) ==
    LET acc == readOnlyFrom(regions, 1, [decorations |-> <<>>, lastEnd |-> 0])
    IN  IF acc.lastEnd < totalLines
          THEN Append(acc.decorations,
                      RangeDecoration("readonly-region", acc.lastEnd + 1, totalLines))
          ELSE acc.decorations

\* The second argument of editorInstance.deltaDecorations([], ...) in the
\* guard effect.
guardDecorations(editableRegions, totalLines) ==
    LET validated == validatedRegions(editableRegions, totalLines)
    IN  editableDecorations(validated) \o readOnlyDecorations(validated, totalLines)

\* The read-only ranges of CodeEditingView.handleEditorDidMount, computed
\* from the regions as parsed (no clamping), from region i on.
RECURSIVE readOnlyRangesFrom(_, _, _)
readOnlyRangesFrom(regions, i, acc) ==
    IF i > Len(regions) THEN acc
    ELSE readOnlyRangesFrom(regions, i + 1,
           [ranges |->
              IF acc.lastLine < regions[i].start
                THEN Append(acc.ranges,
                            RangeDecoration("readonly-region", acc.lastLine,
                                            regions[i].start - 1))
                ELSE acc.ranges,
            lastLine |-> regions[i].end + 1])

readOnlyRanges(regions, totalLines) ==
    LET acc == readOnlyRangesFrom(regions, 1, [ranges |-> <<>>, lastLine |-> 1])
    IN  IF acc.lastLine <= totalLines
          THEN Append(acc.ranges,
                      RangeDecoration("readonly-region", acc.lastLine, totalLines))
          ELSE acc.ranges

\* ---------------------------------------------------------------- guard
\* The members of monaco.KeyCode the guard and the model's keyboard use.
KeyCode ==
    [Backspace |-> 1, Tab |-> 2, Enter |-> 3, Shift |-> 4, Space |-> 10,
     LeftArrow |-> 15, Delete |-> 20, Digit0 |-> 21, KeyA |-> 31, KeyV |-> 52,
     KeyX |-> 54, KeyZ |-> 56, Semicolon |-> 85]

\* An IKeyboardEvent: the fields the handler reads.
KeyEvent(code, ctrl, alt, meta) ==
    [keyCode |-> code, ctrlKey |-> ctrl, altKey |-> alt, metaKey |-> meta]

Plain(code) == KeyEvent(code, FALSE, FALSE, FALSE)

\* The key events of the model's keyboard.
Keyboard ==
    {Plain(KeyCode.Backspace), Plain(KeyCode.Delete), Plain(KeyCode.Enter),
     Plain(KeyCode.Tab), Plain(KeyCode.Digit0), Plain(KeyCode.KeyA),
     Plain(KeyCode.KeyZ), Plain(KeyCode.Space), Plain(KeyCode.Semicolon),
     Plain(KeyCode.LeftArrow), Plain(KeyCode.Shift),
     KeyEvent(KeyCode.KeyV, TRUE, FALSE, FALSE),
     KeyEvent(KeyCode.KeyV, FALSE, FALSE, TRUE),
     KeyEvent(KeyCode.KeyX, TRUE, FALSE, FALSE)}

\* A monaco Selection: its first and last line and whether it is empty (a
\* cursor).  An empty selection lies on one line.
Selection(a, b, e) == [startLineNumber |-> a, endLineNumber |-> b, empty |-> e]

SelectionsIn(n) ==
    {sel \in [startLineNumber : 1..n, endLineNumber : 1..n, empty : BOOLEAN] :
        /\ sel.startLineNumber <= sel.endLineNumber
        /\ sel.empty => sel.startLineNumber = sel.endLineNumber}

\* const isPositionEditable = (position) => validatedRegions.some(...)
isPositionEditable(regions, lineNumber) ==
    \E i \in 1..Len(regions) :
        lineNumber >= regions[i].start /\ lineNumber <= regions[i].end

\* Mutant of isRangeEditable: the two ends of the selection are looked up
\* separately, so they may lie in different regions.
isRangeEditableEndpoints(regions, startLine, endLine) ==
    /\ isPositionEditable(regions, startLine)
    /\ isPositionEditable(regions, endLine)

\* The range check of onKeyDown for a non-empty selection:
\* validatedRegions.some(r => startLine >= r.start && endLine <= r.end)
isRangeEditable(regions, startLine, endLine) ==
    \E i \in 1..Len(regions) :
        startLine >= regions[i].start /\ endLine <= regions[i].end

\* The callback of selections.every(...).
isSelectionEditable(regions, selection) ==
    IF selection.empty
      THEN isPositionEditable(regions, selection.startLineNumber)
      ELSE isRangeEditable(regions, selection.startLineNumber,
                           selection.endLineNumber)

\* Mutant of isEditAllowed: selections.some instead of selections.every.
isEditAllowedSome(regions, selections) ==
    \E selection \in selections : isSelectionEditable(regions, selection)

\* const isEditAllowed = selections.every(...)
isEditAllowed(regions, selections) ==
    \A selection \in selections : isSelectionEditable(regions, selection)

\* const isEditingKey = ...
isEditingKey(e) ==
    \/ e.keyCode = KeyCode.Backspace
    \/ e.keyCode = KeyCode.Delete
    \/ e.keyCode = KeyCode.Enter
    \/ e.keyCode = KeyCode.Tab
    \/ (e.ctrlKey /\ e.keyCode = KeyCode.KeyV)
    \/ (/\ ~e.ctrlKey
        /\ ~e.altKey
        /\ ~e.metaKey
        /\ e.keyCode >= KeyCode.Digit0
        /\ e.keyCode <= KeyCode.KeyZ)

\* The onKeyDown handler: TRUE iff it calls e.preventDefault().
keyDownPrevented(regions, selections, e) ==
    IF ~isEditAllowed(regions, selections) THEN isEditingKey(e) ELSE FALSE

\* --------------------------------------------------------------- editor
\* The model of an editor holding no text: "".split("\n") is [""].
EmptyLine == Line("N", 0)

EmptyDoc == <<EmptyLine>>

IsEmptyLine(line) == line = EmptyLine

\* A line after text was inserted into or deleted from it, its sentinel
\* left intact.
Touch(line) == [line EXCEPT !.c = IF @ = 1 THEN 2 ELSE 1]

\* A line after an edit inside its sentinel: the sentinel is gone.
Break(line) == Line("N", IF line.c = 1 THEN 2 ELSE 1)

\* Two lines joined into one (the line break between them deleted).
Join(l1, l2) ==
    LET b == hasBegin(l1) \/ hasBegin(l2)
        e == hasEnd(l1) \/ hasEnd(l2)
    IN  Line(IF b /\ e THEN "BE" ELSE IF b THEN "B" ELSE IF e THEN "E" ELSE "N",
             IF l1.c = 0 THEN l2.c ELSE IF l2.c = 0 THEN l1.c
             ELSE IF l1.c = 1 THEN 2 ELSE 1)

\* t with its lines a..b replaced by the lines new.
Replace(t, a, b, new) == SubSeq(t, 1, a - 1) \o new \o SubSeq(t, b + 1, Len(t))

PlainLines(k) == [i \in 1..k |-> Line("N", 1)]

\* What a key event does when the handler lets it through.
Operation(e) ==
    IF e.keyCode = KeyCode.Backspace THEN "backspace"
    ELSE IF e.keyCode = KeyCode.Delete THEN "delete"
    ELSE IF e.keyCode = KeyCode.Enter THEN "enter"
    ELSE IF e.keyCode = KeyCode.KeyV /\ (e.ctrlKey \/ e.metaKey) THEN "paste"
    ELSE IF e.keyCode = KeyCode.KeyX /\ (e.ctrlKey \/ e.metaKey) THEN "cut"
    ELSE IF e.keyCode \in {KeyCode.LeftArrow, KeyCode.Shift} THEN "move"
    ELSE IF e.ctrlKey \/ e.altKey \/ e.metaKey THEN "move"
    ELSE "type"

\* Where in its line a cursor stands, or how much of its lines a non-empty
\* selection covers.
Places(t, sel) ==
    IF sel.empty
      THEN IF IsEmptyLine(t[sel.startLineNumber]) THEN {"start"}
           ELSE {"start", "inside", "end"}
      ELSE {"whole", "partial"}

\* The results an in-line edit of one line can have: the text around the
\* sentinel changes, the sentinel is broken, or the line becomes empty.
InLine(line, op) ==
    {Touch(line)}
      \cup (IF line.s # "N" THEN {Break(line)} ELSE {})
      \cup (IF op \in {"backspace", "delete"} /\ line.s = "N" THEN {EmptyLine} ELSE {})

\* The line left where a non-empty selection a..b was removed.
Removed(t, sel, place) ==
    IF place = "whole" THEN EmptyLine
    ELSE IF sel.startLineNumber = sel.endLineNumber THEN Touch(t[sel.startLineNumber])
    ELSE Join(t[sel.startLineNumber], t[sel.endLineNumber])

\* The editor's default action for operation op on selection sel: the set of
\* outcomes [text, modified, position], modified being the lines of t whose
\* content the operation changes or removes and position the cursor line
\* afterwards.  k is the number of lines of the clipboard (paste only).
Outcome(tx, modified, position) ==
    [text |-> tx, modified |-> modified, position |-> position]

DefaultAction(t, sel, place, op, k) ==
    LET a == sel.startLineNumber
        b == sel.endLineNumber
        n == Len(t)
    IN
    IF op = "move" THEN {Outcome(t, {}, a)}
    ELSE IF ~sel.empty THEN
      LET r == Removed(t, sel, place) IN
      CASE op = "type" -> {Outcome(Replace(t, a, b, <<Touch(r)>>), a..b, a)}
        [] op \in {"backspace", "delete", "cut"} ->
             {Outcome(Replace(t, a, b, <<r>>), a..b, a)}
        [] op = "enter" -> {Outcome(Replace(t, a, b, <<r, EmptyLine>>), a..b, a + 1)}
        [] op = "paste" ->
             {Outcome(Replace(t, a, b, <<Touch(r)>> \o PlainLines(k - 1)),
                      a..b, a + k - 1)}
    ELSE
      CASE op = "type" ->
             {Outcome([t EXCEPT ![a] = l], {a}, a) : l \in InLine(t[a], op)}
        [] op = "backspace" ->
             IF place = "start"
               THEN IF a = 1 THEN {Outcome(t, {}, a)}
                    ELSE {Outcome(Replace(t, a - 1, a, <<Join(t[a - 1], t[a])>>),
                                  {a - 1, a}, a - 1)}
               ELSE {Outcome([t EXCEPT ![a] = l], {a}, a) : l \in InLine(t[a], op)}
        [] op = "delete" ->
             IF place = "end" \/ IsEmptyLine(t[a])
               THEN IF a = n THEN {Outcome(t, {}, a)}
                    ELSE {Outcome(Replace(t, a, a + 1, <<Join(t[a], t[a + 1])>>),
                                  {a, a + 1}, a)}
               ELSE {Outcome([t EXCEPT ![a] = l], {a}, a) : l \in InLine(t[a], op)}
        [] op = "enter" ->
             IF place = "start"
               THEN {Outcome(Replace(t, a, a, <<EmptyLine, t[a]>>), {}, a + 1)}
             ELSE IF place = "end"
               THEN {Outcome(Replace(t, a, a, <<t[a], EmptyLine>>), {}, a + 1)}
             ELSE {Outcome(Replace(t, a, a, <<Touch(t[a]), Line("N", 1)>>), {a}, a + 1)}
        [] op = "cut" ->
             IF n = 1 THEN {Outcome(EmptyDoc, IF IsEmptyLine(t[1]) THEN {} ELSE {1}, 1)}
             ELSE {Outcome(Replace(t, a, a, <<>>), {a}, Min(a, n - 1))}
        [] op = "paste" ->
             IF place = "start" /\ k > 1
               THEN {Outcome(Replace(t, a, a, PlainLines(k - 1) \o <<Touch(t[a])>>),
                             {a}, a + k - 1)}
               ELSE {Outcome(Replace(t, a, a, <<Touch(t[a])>> \o PlainLines(k - 1)),
                             {a}, a + k - 1)}

\* Mutant of onDidPaste: the test of the position lacks its negation.
onDidPasteInverted(regions, position) == isPositionEditable(regions, position)

\* The onDidPaste handler: TRUE iff it triggers undo.
onDidPaste(regions, position) == ~isPositionEditable(regions, position)

\* Editor onChange={(value) => value && onCodeChange(value)}: TRUE iff the
\* new text is handed to onCodeChange ("" is falsy).
onChangeForwards(value) == value # EmptyDoc

\* ------------------------------------------------------------- variables
VARIABLES
    ptext,      \* parser specification: the text handed to the parsers
    pstage,     \* "input" before the parse, "parsed" after it
    pregions,   \* the regions the component parser returned for ptext
    sregions,   \* the regions getEditableRegions returned for ptext
    cin,        \* clamp specification: the region list to validate
    clines,     \* the line count of the model (model.getLineCount())
    cstage,     \* "input" before the validation, "clamped" after it
    cout,       \* the validated regions
    gregions,   \* guard specification: validatedRegions of the handlers
    glines,     \* the line count of the model the guard was set up for
    gsel,       \* editorInstance.getSelections()
    gev,        \* the last key-down event and what the handler did with it
    text,       \* editor specification: the lines of the editor's model
    code,       \* the code prop (the parent's state)
    editableRegions,  \* the component's editableRegions state
    guardRegions,     \* validatedRegions of the registered handlers
    ev,         \* the last key event and its effect
    oann,       \* overlay specification: the lineDescriptions list
    oline,      \* the hovered line number
    ostage,     \* "input", then "hover" or "decorations"
    ofound,     \* what the hover lookup returned
    odecos,     \* what createLineDescriptionDecorations returned
    ttext,      \* metadata specification: the lines handed to the parser
    tstage,     \* "input" before the parse, "parsed" after it
    tregions,   \* the regions with title and description
    vsteps,             \* viewer specification: workshop.steps
    currentStepIndex,   \* WorkshopViewer state
    showDiff,           \* WorkshopViewer state
    activeDescription,  \* WorkshopViewer state: the popup or Null
    shown,              \* the editor element the viewer renders
    editorRef,          \* editorRef.current (0 = null)
    decorationsRef,     \* decorationsRef.current
    vmodel,             \* the decorations on the shown editor's model
    hoverStep,          \* currentStep of the registered mouse listeners
    vev,                \* the last viewer event
    wsteps,             \* author specification: workshop.steps
    selectedStepIndex,  \* WorkshopEditor state
    timers,             \* pending handleSelectStep timers, oldest first
    wshown,             \* the Editor element of the step form
    wdecorationsRef,    \* decorationsRef.current of WorkshopEditor
    wmodel,             \* the decorations on the Editor's model
    whover,             \* the step the mouse listeners look up
    wev,                \* the last WorkshopEditor event
    ninput,     \* line-number specification: the text of the Lines input
    nstage,     \* "input" before the call, "parsed" after it
    nout,       \* what parseLineNumbers returned
    store,      \* store specification: the workshops in localStorage
    sev,        \* the last call of the workshop service and its result
    lcode,      \* lifecycle specification: the code prop and model text
    lregions,   \* the editableRegions state of the playground
    leditor,    \* the mounted editor: handlers and decorations (or Null)
    leffect,    \* what the cleanup of the last guard effect holds (or Null)
    ltimer,     \* the regions of the pending mount timer (or Null)
    lev         \* the last lifecycle event

pvars == <<ptext, pstage, pregions, sregions>>

cvars == <<cin, clines, cstage, cout>>

gvars == <<gregions, glines, gsel, gev>>

evars == <<text, code, editableRegions, guardRegions, ev>>

ovars == <<oann, oline, ostage, ofound, odecos>>

tvars == <<ttext, tstage, tregions>>

vvars == <<vsteps, currentStepIndex, showDiff, activeDescription, shown,
           editorRef, decorationsRef, vmodel, hoverStep, vev>>

wvars == <<wsteps, selectedStepIndex, timers, wshown, wdecorationsRef,
           wmodel, whover, wev>>

\* The variables of the playground specifications and those of the workshop
\* specifications.
corevars == <<pvars, cvars, gvars, evars>>

nvars == <<ninput, nstage, nout>>

svars == <<store, sev>>

lvars == <<lcode, lregions, leditor, leffect, ltimer, lev>>

\* The variables of the utility, store and lifecycle specifications.
uvars == <<nvars, svars, lvars>>

avars == <<ovars, tvars, vvars, wvars, uvars>>

vars == <<corevars, avars>>

\* Values of the variables a specification does not use.
IdleParse == ptext = <<>> /\ pstage = "off" /\ pregions = <<>> /\ sregions = <<>>

IdleClamp == cin = <<>> /\ clines = 1 /\ cstage = "off" /\ cout = <<>>

NoEvent == [kind |-> "none"]

IdleGuard == gregions = <<>> /\ glines = 1 /\ gsel = {} /\ gev = NoEvent

IdleEditor ==
    /\ text = EmptyDoc
    /\ code = EmptyDoc
    /\ editableRegions = <<>>
    /\ guardRegions = <<>>
    /\ ev = NoEvent

\* null is the empty sequence, a value v that may be null is <<v>>.
Null == <<>>

\* No editor element is rendered.
NoEditor == [kind |-> "none", key |-> 0, inst |-> 0, ready |-> FALSE]

\* A text model without decorations (last = the model's decoration counter).
EmptyModel == [decorations |-> {}, last |-> 0]

IdleOverlay ==
    oann = <<>> /\ oline = 1 /\ ostage = "off" /\ ofound = Null /\ odecos = <<>>

IdleMeta == ttext = <<>> /\ tstage = "off" /\ tregions = <<>>

IdleViewer ==
    /\ vsteps = <<>>
    /\ currentStepIndex = 0
    /\ showDiff = FALSE
    /\ activeDescription = Null
    /\ shown = NoEditor
    /\ editorRef = 0
    /\ decorationsRef = <<>>
    /\ vmodel = EmptyModel
    /\ hoverStep = Null
    /\ vev = NoEvent

IdleAuthor ==
    /\ wsteps = <<>>
    /\ selectedStepIndex = -1
    /\ timers = <<>>
    /\ wshown = NoEditor
    /\ wdecorationsRef = <<>>
    /\ wmodel = EmptyModel
    /\ whover = Null
    /\ wev = NoEvent

IdleNumbers == ninput = <<>> /\ nstage = "off" /\ nout = <<>>

IdleStore == store = <<>> /\ sev = NoEvent

IdleLifecycle ==
    /\ lcode = EmptyDoc
    /\ lregions = <<>>
    /\ leditor = Null
    /\ leffect = Null
    /\ ltimer = Null
    /\ lev = NoEvent

IdleUtil == IdleNumbers /\ IdleStore /\ IdleLifecycle

IdleWorkshop == IdleOverlay /\ IdleMeta /\ IdleViewer /\ IdleAuthor

IdleCore == IdleParse /\ IdleClamp /\ IdleGuard /\ IdleEditor

\* ------------------------------------------------- parser specification
InitParse ==
    /\ ptext \in TextsUpTo(MaxLen)
    /\ pstage = "input"
    /\ pregions = <<>>
    /\ sregions = <<>>
    /\ IdleClamp
    /\ IdleGuard
    /\ IdleEditor
    /\ IdleWorkshop
    /\ IdleUtil

\* The [code] effect of the component: parse and setEditableRegions.
ParseEffect ==
    /\ pstage = "input"
    /\ pregions' = parseRegions(ptext)
    /\ pstage' = "parsed"
    /\ UNCHANGED <<ptext, sregions, cvars, gvars, evars, avars>>

\* A call of workshopService.getEditableRegions on the same text.
ServiceParse ==
    /\ pstage = "input"
    /\ sregions' = getEditableRegions(ptext)
    /\ pstage' = "service"
    /\ UNCHANGED <<ptext, pregions, cvars, gvars, evars, avars>>

NextParse == ParseEffect \/ ServiceParse

SpecParse == InitParse /\ [][NextParse]_vars

\* ------------------------------------------------------ parser properties
SentinelPositions(t) == {p \in 1..Len(t) : t[p].s # "N"}

\* Number of sentinel lines of t on lines 1..p.
Rank(t, p) == Cardinality({q \in SentinelPositions(t) : q <= p})

\* t holds only correctly paired, non-nested blocks: its sentinel lines read
\* begin, end, begin, end, ... and no line holds both sentinels.
WellPaired(t) ==
    /\ Cardinality(SentinelPositions(t)) % 2 = 0
    /\ \A p \in SentinelPositions(t) :
          t[p].s = (IF Rank(t, p) % 2 = 1 THEN "B" ELSE "E")

Blocks(t) == Cardinality(SentinelPositions(t)) \div 2

\* The line of the k-th sentinel of t.
SentinelAt(t, k) == CHOOSE p \in SentinelPositions(t) : Rank(t, p) = k

\* Line e holds the end-sentinel matching the begin-sentinel on line b, with
\* at least one line between them.
MatchingPair(t, b, e) ==
    /\ b + 1 < e
    /\ t[b].s = "B"
    /\ t[e].s = "E"
    /\ \A k \in (b + 1)..(e - 1) : t[k].s = "N"

\* C2 (as claimed): a begin-sentinel on line b with its matching end-sentinel
\* on line e > b yields the region start = b + 1, end = e - 1 (stated for
\* the blocks that hold at least one line, as in the claim's example).
C2_RegionBoundaries ==
    pstage = "parsed" =>
      \A b, e \in 1..Len(ptext) :
        MatchingPair(ptext, b, e) =>
          \E i \in 1..Len(pregions) : pregions[i] = Region(b + 1, e - 1)

\* C3: for a text of N correctly paired, non-nested blocks the parser returns
\* exactly N regions, each with 1 <= start <= end <= number of lines, the
\* i-th region lying within the i-th block, starts ascending.
C3_PairedBlocks ==
    (pstage = "parsed" /\ WellPaired(ptext)) =>
      /\ Len(pregions) = Blocks(ptext)
      /\ \A i \in 1..Len(pregions) :
            /\ 1 <= pregions[i].start
            /\ pregions[i].start <= pregions[i].end
            /\ pregions[i].end <= Len(ptext)
            /\ SentinelAt(ptext, 2 * i - 1) <= pregions[i].start
            /\ pregions[i].end <= SentinelAt(ptext, 2 * i)
      /\ \A i \in 1..(Len(pregions) - 1) : pregions[i].start < pregions[i + 1].start

C3_Witness ==
    /\ pstage = "parsed"
    /\ WellPaired(ptext)
    /\ Blocks(ptext) = 2
    /\ Len(pregions) = 2

BeginPositions(t) == {p \in 1..Len(t) : hasBegin(t[p])}

\* The last begin-sentinel of t has no end-sentinel after it.
LastBeginUnterminated(t) ==
    /\ BeginPositions(t) # {}
    /\ \A p \in 1..Len(t) :
          (\A q \in BeginPositions(t) : q < p) => ~hasEnd(t[p])

LastBegin(t) == CHOOSE p \in BeginPositions(t) : \A q \in BeginPositions(t) : q <= p

\* t with line p replaced by a plain line.
PlainAt(t, p) == [t EXCEPT ![p] = Line("N", 1)]

\* C4: when the last begin-sentinel has no following end-sentinel, no region
\* is emitted for it (no region reaches its line) and the result is the one
\* the parser gives for the text with that line made plain.
C4_UnterminatedDropped ==
    (pstage = "parsed" /\ LastBeginUnterminated(ptext)) =>
      /\ \A i \in 1..Len(pregions) : pregions[i].end < LastBegin(ptext)
      /\ pregions = parseRegions(PlainAt(ptext, LastBegin(ptext)))

C4_Witness ==
    /\ pstage = "parsed"
    /\ LastBeginUnterminated(ptext)
    /\ Len(pregions) >= 1
    /\ LastBegin(ptext) < Len(ptext)

\* t with line p replaced by an end-sentinel line.
EndAt(t, p) == [t EXCEPT ![p] = Line("E", 1)]

\* The sentinel lines of t are a begin on b1, a second begin on b2 and an
\* end on e, in this order.
NestedBegin(t, b1, b2, e) ==
    /\ b1 < b2 /\ b2 < e
    /\ t[b1].s = "B" /\ t[b2].s = "B" /\ t[e].s = "E"
    /\ SentinelPositions(t) = {b1, b2, e}

\* Implicit close-and-reopen: the region of b1 closed at b2 (what the
\* parser gives when line b2 is an end-sentinel) followed by the region of
\* b2 closed at e (what it gives when line b1 is plain).
CloseAndReopen(t, b1, b2) ==
    parseRegions(EndAt(t, b2)) \o parseRegions(PlainAt(t, b1))

\* Ignore-nested: the region opened by b1 and closed at e (what the parser
\* gives when line b2 is plain).
IgnoreNested(t, b2) == parseRegions(PlainAt(t, b2))

\* C17 (as claimed): for a second begin-sentinel on line b2 after an open
\* begin on line b1 and before the end-sentinel on line e, the result is
\* that of close-and-reopen or that of ignore-nested.
C17_NestedBegin ==
    pstage = "parsed" =>
      \A b1, b2, e \in 1..Len(ptext) :
        NestedBegin(ptext, b1, b2, e) =>
          pregions \in {CloseAndReopen(ptext, b1, b2), IgnoreNested(ptext, b2)}

\* The lines of t that hold the end-sentinel only.
EndPositions(t) == {p \in 1..Len(t) : t[p].s = "E"}

\* A region is open when line p is met: a begin-sentinel line before p has
\* no end-sentinel line between it and p.
OpenBefore(t, p) ==
    \E b \in BeginPositions(t) :
        /\ b < p
        /\ \A q \in (b + 1)..(p - 1) : t[q].s # "E"

\* The region list `regions` returned for t by the parser `parse` degrades:
\* it is a list of regions, an end-sentinel met while no region is open
\* changes nothing (the result is that for the text with a plain line in
\* its place), and there are at most as many regions as end-sentinel lines.
Degrades(t, regions, parse(_)) ==
    /\ \A i \in 1..Len(regions) : regions[i] = Region(regions[i].start, regions[i].end)
    /\ \A p \in EndPositions(t) :
          ~OpenBefore(t, p) => regions = parse(PlainAt(t, p))
    /\ Len(regions) <= Cardinality(EndPositions(t))

\* C19: for every text of plain, begin, end and begin+end lines both
\* parsers return a region list; an end-sentinel met while no region is
\* open emits no region and does not change the regions of the rest of the
\* text; the regions never outnumber the end-sentinel lines.
C19_MalformedDegrade ==
    /\ pstage = "parsed" => Degrades(ptext, pregions, parseRegions)
    /\ pstage = "service" => Degrades(ptext, sregions, getEditableRegions)

\* An end-sentinel with no open region, then a line with both sentinels
\* that opens a region, which a later end-sentinel closes.
C19_Witness ==
    /\ pstage = "parsed"
    /\ \E p, q \in 1..Len(ptext) :
          /\ p < q
          /\ ptext[p].s = "E"
          /\ ~OpenBefore(ptext, p)
          /\ ptext[q].s = "BE"
    /\ Len(pregions) >= 1

\* Consecutive regions of the list are strictly ascending and no line
\* belongs to two of them.
Ascending(regions) ==
    /\ \A i \in 1..(Len(regions) - 1) : regions[i].end < regions[i + 1].start
    /\ \A i, j \in 1..Len(regions) :
          i # j => RegionLines(regions[i]) \cap RegionLines(regions[j]) = {}

\* C26: the regions returned by the parsers are pairwise disjoint and
\* strictly ascending.
C26_DisjointAscending ==
    /\ pstage = "parsed" => Ascending(pregions)
    /\ pstage = "service" => Ascending(sregions)

\* A text with two regions, the second opened right after the end-sentinel
\* of the first.
C26_Witness ==
    /\ pstage = "parsed"
    /\ Len(pregions) = 2
    /\ \E p \in 1..(Len(ptext) - 1) : ptext[p].s = "E" /\ hasBegin(ptext[p + 1])

\* -------------------------------------------------- clamp specification
\* Regions as the parser produces them: 1 <= start <= end.
WellFormedRegions == {r \in [start : 1..MaxLine, end : 1..MaxLine] : r.start <= r.end}

InitClamp ==
    /\ cin \in UNION {[1..k -> WellFormedRegions] : k \in 1..MaxRegions}
    /\ clines \in 1..MaxLine
    /\ cstage = "input"
    /\ cout = <<>>
    /\ IdleParse
    /\ IdleGuard
    /\ IdleEditor
    /\ IdleWorkshop
    /\ IdleUtil

\* The guard effect computes validatedRegions from the region list and the
\* model's line count.
ValidateRegions ==
    /\ cstage = "input"
    /\ cout' = validatedRegions(cin, clines)
    /\ cstage' = "clamped"
    /\ UNCHANGED <<cin, clines, pvars, gvars, evars, avars>>

\* The guard effect builds its decorations for the region list and the
\* model's line count.
DecorateRegions ==
    /\ cstage = "input"
    /\ cout' = guardDecorations(cin, clines)
    /\ cstage' = "decorated"
    /\ UNCHANGED <<cin, clines, pvars, gvars, evars, avars>>

\* CodeEditingView builds its read-only ranges at mount.
ReadOnlyRanges ==
    /\ cstage = "input"
    /\ cout' = readOnlyRanges(cin, clines)
    /\ cstage' = "ranges"
    /\ UNCHANGED <<cin, clines, pvars, gvars, evars, avars>>

NextClamp == ValidateRegions \/ DecorateRegions \/ ReadOnlyRanges

SpecClamp == InitClamp /\ [][NextClamp]_vars

\* What the claim says of one region: unchanged when end <= lineCount, end
\* truncated to lineCount when start <= lineCount < end, dropped when
\* start > lineCount.
ClaimedClamp(regions, lineCount) ==
    LET kept == SelectSeq(regions, LAMBDA r : r.start <= lineCount) IN
    [i \in 1..Len(kept) |->
        IF kept[i].end <= lineCount THEN kept[i]
        ELSE [kept[i] EXCEPT !.end = lineCount]]

\* C9 (as claimed): clampToDocument keeps a region inside the document,
\* truncates the end of a region that crosses lineCount and drops a region
\* that starts beyond lineCount.
C9_ClampToDocument ==
    cstage = "clamped" => cout = ClaimedClamp(cin, clines)

\* The lines of all regions of a list.
EditableLines(regions) == UNION {RegionLines(regions[i]) : i \in 1..Len(regions)}

\* The lines covered by the decorations of the given class.
Covered(decorations, className) ==
    UNION {decorations[i].startLine..decorations[i].endLine :
             i \in {j \in 1..Len(decorations) : decorations[j].className = className}}

\* The decorations split the lines 1..totalLines into the lines of the
\* regions (editable-region, when the list has that class at all) and the
\* others (readonly-region), every range being non-empty and inside the
\* document.
Partition(decorations, regions, totalLines, withEditable) ==
    /\ withEditable =>
          Covered(decorations, "editable-region")
            = EditableLines(regions) \cap (1..totalLines)
    /\ Covered(decorations, "readonly-region")
          = (1..totalLines) \ EditableLines(regions)
    /\ \A i \in 1..Len(decorations) :
          /\ decorations[i].startLine <= decorations[i].endLine
          /\ decorations[i].startLine >= 1
          /\ decorations[i].endLine <= totalLines

\* C27: for a region list in the parser's order (ascending, disjoint), the
\* decorations of the guard effect cover a line of 1..totalLines with
\* editable-region iff it lies in a validated region and with
\* readonly-region iff it lies in none, with no empty and no out-of-document
\* range; the read-only ranges of CodeEditingView are the complement of
\* the regions when these lie inside the document.
C27_DecorationPartition ==
    /\ (cstage = "decorated" /\ Ascending(cin))
         => Partition(cout, validatedRegions(cin, clines), clines, TRUE)
    /\ (cstage = "ranges" /\ Ascending(cin)
           /\ \A i \in 1..Len(cin) : cin[i].end <= clines)
         => Partition(cout, cin, clines, FALSE)

\* Two regions with read-only lines before, between and after them.
C27_Witness ==
    /\ cstage = "decorated"
    /\ Ascending(cin)
    /\ Len(validatedRegions(cin, clines)) = 2
    /\ validatedRegions(cin, clines) = cin
    /\ Len(SelectSeq(cout, LAMBDA d : d.className = "readonly-region")) = 3

\* -------------------------------------------------- guard specification
\* The handlers are registered by the guard effect with the regions parsed
\* from the code prop, validated against the model's line count; the
\* selections are wherever the user put them.
InitGuard ==
    /\ glines \in 1..MaxDoc
    /\ gregions \in {validatedRegions(parseRegions(t), glines) : t \in TextsUpTo(MaxLen)}
    /\ gsel \in {S \in SUBSET SelectionsIn(glines) : S # {} /\ Cardinality(S) <= MaxSel}
    /\ gev = NoEvent
    /\ IdleParse
    /\ IdleClamp
    /\ IdleEditor
    /\ IdleWorkshop
    /\ IdleUtil

\* A key-down event reaches the handler registered by the guard effect.
KeyDown(e) ==
    /\ gev' = [kind |-> "key", key |-> e,
               allowed |-> isEditAllowed(gregions, gsel),
               prevented |-> keyDownPrevented(gregions, gsel, e)]
    /\ UNCHANGED <<gregions, glines, gsel, pvars, cvars, evars, avars>>

NextGuard == \E e \in Keyboard : KeyDown(e)

SpecGuard == InitGuard /\ [][NextGuard]_vars

\* A selection is editable as the claim defines it: a cursor when its line
\* lies in some region, a non-empty selection when one single region holds
\* both its first and its last line.
ClaimedEditable(regions, sel) ==
    IF sel.empty
      THEN sel.startLineNumber \in EditableLines(regions)
      ELSE \E i \in 1..Len(regions) :
             {sel.startLineNumber, sel.endLineNumber} \subseteq RegionLines(regions[i])

\* C5: when a gated key is pressed the edit is allowed (not prevented) iff
\* every current selection is editable.
C5_GuardDecision ==
    (gev.kind = "key" /\ isEditingKey(gev.key)) =>
      (~gev.prevented <=> \A sel \in gsel : ClaimedEditable(gregions, sel))

C5_Witness ==
    /\ gev.kind = "key"
    /\ isEditingKey(gev.key)
    /\ gev.prevented
    /\ Cardinality(gsel) = 2
    /\ \E sel \in gsel : sel.empty /\ ClaimedEditable(gregions, sel)
    /\ \E sel \in gsel : ~sel.empty /\ ~ClaimedEditable(gregions, sel)

\* The lines a selection spans.
SelectionLines(sel) == sel.startLineNumber..sel.endLineNumber

\* C6: for a non-empty selection a..b the range check is true iff one single
\* region holds every line of a..b; it is false when a line of a..b belongs
\* to no region and when a and b lie in two regions none of which holds both.
C6_RangeEditable ==
    gev.kind = "key" =>
      \A sel \in gsel :
        (gsel = {sel} /\ ~sel.empty) =>
          /\ gev.allowed <=>
                \E i \in 1..Len(gregions) : SelectionLines(sel) \subseteq RegionLines(gregions[i])
          /\ (SelectionLines(sel) \ EditableLines(gregions) # {}) => ~gev.allowed
          /\ (\A i \in 1..Len(gregions) :
                 ~({sel.startLineNumber, sel.endLineNumber} \subseteq RegionLines(gregions[i])))
               => ~gev.allowed

\* A selection whose two ends lie in two different regions is not editable.
C6_Witness ==
    /\ gev.kind = "key"
    /\ ~gev.allowed
    /\ \E sel \in gsel :
         /\ gsel = {sel}
         /\ ~sel.empty
         /\ sel.startLineNumber \in EditableLines(gregions)
         /\ sel.endLineNumber \in EditableLines(gregions)

\* Content-mutating key events as the claim lists them: character input,
\* backspace, delete, enter, tab, paste.
CharacterInput(e) ==
    /\ ~e.ctrlKey /\ ~e.altKey /\ ~e.metaKey
    /\ \/ (e.keyCode >= KeyCode.Digit0 /\ e.keyCode <= KeyCode.KeyZ)
       \/ e.keyCode \in {KeyCode.Space, KeyCode.Semicolon}

PasteKey(e) == e.keyCode = KeyCode.KeyV /\ (e.ctrlKey \/ e.metaKey) /\ ~e.altKey

ContentMutating(e) ==
    \/ CharacterInput(e)
    \/ e.keyCode \in {KeyCode.Backspace, KeyCode.Delete, KeyCode.Enter, KeyCode.Tab}
    \/ PasteKey(e)

\* Arrow keys and plain modifiers.
Navigation(e) == e.keyCode \in {KeyCode.LeftArrow, KeyCode.Shift}

\* C7 (as claimed): with a non-editable cursor/selection every
\* content-mutating key is rejected, with an editable one none is, and
\* navigation keys are never rejected.
C7_KeyGating ==
    gev.kind = "key" =>
      /\ (ContentMutating(gev.key) /\ ~gev.allowed) => gev.prevented
      /\ gev.allowed => ~gev.prevented
      /\ Navigation(gev.key) => ~gev.prevented

\* ------------------------------------------------- editor specification
\* The documents the playground is opened with.
InitialDocs == TextsUpTo(MaxLines)

\* The component after mount with the code prop loaded: the [code] effect
\* has parsed it and the guard effect has registered the handlers.
Init ==
    /\ text \in InitialDocs
    /\ code = text
    /\ editableRegions = parseRegions(code)
    /\ guardRegions = validatedRegions(editableRegions, Len(text))
    /\ ev = NoEvent
    /\ IdleParse
    /\ IdleClamp
    /\ IdleGuard
    /\ IdleWorkshop
    /\ IdleUtil

\* The text-change event for the new text t2 and everything it triggers:
\* onChange -> onCodeChange -> setCode, the [code] effect (parse,
\* setEditableRegions) and the guard effect (validatedRegions from the
\* model's line count, handlers re-registered).  The state updates come from
\* a keyboard or clipboard event, so React renders and runs both effects
\* before the next input event is dispatched: one step.
TextChanged(t2) ==
    /\ text' = t2
    /\ IF t2 # text /\ onChangeForwards(t2)
         THEN /\ code' = t2
              /\ editableRegions' = parseRegions(t2)
              /\ guardRegions' = validatedRegions(parseRegions(t2), Len(t2))
         ELSE UNCHANGED <<code, editableRegions, guardRegions>>

\* The lines of the model outside every region of the registered guard.
ReadOnlyLines == (1..Len(text)) \ EditableLines(guardRegions)

\* A key-down event e with the selection sel: the onKeyDown handler, then,
\* unless it called preventDefault, the editor's default action, for a paste
\* followed by the onDidPaste handler, then the text-change processing.
KeyPress(e, sel, place, k) ==
    LET prevented == keyDownPrevented(guardRegions, {sel}, e)
        allowed == isEditAllowed(guardRegions, {sel})
        op == Operation(e)
    IN
    /\ ev = NoEvent
    /\ IF prevented
      THEN /\ ev' = [kind |-> "key", key |-> e, op |-> op, allowed |-> FALSE,
                     prevented |-> TRUE, touched |-> {}]
           /\ UNCHANGED <<text, code, editableRegions, guardRegions>>
      ELSE \E out \in DefaultAction(text, sel, place, op, k) :
             LET undo == op = "paste" /\ onDidPaste(guardRegions, out.position) IN
             /\ Len(out.text) <= MaxLines
             /\ ev' = IF op = "paste"
                        THEN [kind |-> "key", key |-> e, op |-> op,
                              allowed |-> allowed, prevented |-> FALSE,
                              touched |-> IF undo THEN {}
                                          ELSE out.modified \cap ReadOnlyLines,
                              position |-> out.position, reverted |-> undo,
                              cursor |-> sel.empty,
                              line |-> sel.startLineNumber]
                        ELSE [kind |-> "key", key |-> e, op |-> op,
                              allowed |-> allowed, prevented |-> FALSE,
                              touched |-> out.modified \cap ReadOnlyLines]
             /\ TextChanged(IF undo THEN text ELSE out.text)

\* The key events of the editor specification: one of each kind.
EditorKeys ==
    {Plain(KeyCode.Backspace), Plain(KeyCode.Delete), Plain(KeyCode.Enter),
     Plain(KeyCode.KeyA), Plain(KeyCode.Space), Plain(KeyCode.LeftArrow),
     KeyEvent(KeyCode.KeyV, TRUE, FALSE, FALSE),
     KeyEvent(KeyCode.KeyV, FALSE, FALSE, TRUE),
     KeyEvent(KeyCode.KeyX, TRUE, FALSE, FALSE)}

\* The dispatch of the event is over: the editor waits for the next one.
EventDone ==
    /\ ev # NoEvent
    /\ ev' = NoEvent
    /\ UNCHANGED <<text, code, editableRegions, guardRegions>>

Next ==
    \/ /\ ev = NoEvent
       /\ \E e \in EditorKeys, sel \in SelectionsIn(Len(text)) :
            \E place \in Places(text, sel), k \in 1..MaxPaste :
              /\ (Operation(e) # "paste" => k = 1)
              /\ KeyPress(e, sel, place, k)
              /\ UNCHANGED <<pvars, cvars, gvars, avars>>
    \/ (EventDone /\ UNCHANGED <<pvars, cvars, gvars, avars>>)

Spec == Init /\ [][Next]_vars

\* C1 (as claimed): no accepted keystroke and no un-reverted paste changes
\* a line that lay outside all editable regions when it was issued.  Stated
\* for the narrowest reading of "accepted": the key events whose selection
\* the guard found editable.
C1_EditGuardSound ==
    (ev.kind = "key" /\ ev.allowed /\ ~ev.prevented) => ev.touched = {}

\* C8: after a paste, if the resulting cursor line lies outside every region
\* of the guard (the regions in force when the paste was made), the buffer
\* equals the pre-paste buffer.
C8_PasteRevert ==
    [][(ev'.kind = "key" /\ ev'.op = "paste" /\ ~ev'.prevented
          /\ ev'.position \notin EditableLines(guardRegions))
        => text' = text]_vars

\* A multi-line paste started inside a region whose cursor ended past the
\* region's end line was reverted.
C8_Witness ==
    /\ ev.kind = "key"
    /\ ev.op = "paste"
    /\ ~ev.prevented
    /\ ev.reverted
    /\ ev.position \notin EditableLines(guardRegions)
    /\ ev.position - 1 \in EditableLines(guardRegions)

\* C25 (as claimed): a paste made with the cursor on a line outside every
\* region of the guard leaves the buffer as it was before the paste,
\* wherever the cursor stands afterwards and whichever way it was triggered
\* (the key handler sees Ctrl+V and Cmd+V; a paste from the context menu
\* goes the way of Cmd+V, straight to onDidPaste).
C25_PasteOutsideReverted ==
    [][(ev'.kind = "key" /\ ev'.op = "paste"
          /\ (ev'.prevented
                \/ (ev'.cursor /\ ev'.line \notin EditableLines(guardRegions))))
        => text' = text]_vars

\* The sentinels of t in the order of their lines.
RECURSIVE SentinelsOf(_)
SentinelsOf(t) ==
    IF t = <<>> THEN <<>>
    ELSE (IF Head(t).s = "N" THEN <<>> ELSE <<Head(t).s>>) \o SentinelsOf(Tail(t))

\* C24 (as claimed): no parsed region contains a line that holds a
\* sentinel; a keystroke the guard accepts leaves every sentinel line as it
\* is and the number of parsed regions as it was (no key of the model types
\* a sentinel).
C24_SentinelsOutOfBand ==
    [][/\ \A i \in 1..Len(editableRegions) :
            \A l \in RegionLines(editableRegions[i]) \cap (1..Len(code)) :
                code[l].s = "N"
       /\ (ev'.kind = "key" /\ ev'.allowed /\ ~ev'.prevented)
            => /\ SentinelsOf(text') = SentinelsOf(text)
               /\ Len(parseRegions(text')) = Len(parseRegions(text))]_vars

\* C10 (as claimed): once a text change has been processed, the regions the
\* guard consults are those parsed from the current text, clamped to the
\* current line count.
C10_RegionFreshness ==
    guardRegions = validatedRegions(parseRegions(text), Len(text))

\* ------------------------------------------------------ annotation overlay
\* (frontend/src/features/workshops: utils/monacoConfig, WorkshopViewer,
\* WorkshopEditor).  A LineDescription is reduced to its lines array and its
\* content; the contents are two markdown texts.
Contents == {"a", "b"}

LineDescription(lines, content) == [lines |-> lines, content |-> content]

\* The lines arrays: any sequence of positive line numbers (parseLineNumbers
\* keeps repeated and unordered entries).
LineArrays(n, m) == UNION {[1..k -> 1..m] : k \in 0..n}

LineDescriptions(n, m) ==
    {LineDescription(l, c) : l \in LineArrays(n, m), c \in Contents}

DescriptionLists(a, n, m) == UNION {[1..k -> LineDescriptions(n, m)] : k \in 0..a}

\* array.includes(x)
includes(array, x) == \E i \in DOMAIN array : array[i] = x

\* The line set of an annotation: the members of its lines array.
LineSet(desc) == {desc.lines[i] : i \in DOMAIN desc.lines}

\* Mutant of findFrom: the scan keeps going after a hit, so the last
\* annotation containing the line is returned.
RECURSIVE findFromLast(_, _, _)
findFromLast(lineDescriptions, lineNumber, i) ==
    IF i > Len(lineDescriptions)
      THEN Null
      ELSE LET rest == findFromLast(lineDescriptions, lineNumber, i + 1)
           IN  IF rest # Null
                 THEN rest
                 ELSE IF includes(lineDescriptions[i].lines, lineNumber)
                        THEN <<lineDescriptions[i]>>
                        ELSE Null

\* Array.prototype.find from index i on: the first element whose lines
\* include lineNumber, Null (undefined) when there is none.
RECURSIVE findFrom(_, _, _)
findFrom(lineDescriptions, lineNumber, i) ==
    IF i > Len(lineDescriptions)
      THEN Null
      ELSE IF includes(lineDescriptions[i].lines, lineNumber)
             THEN <<lineDescriptions[i]>>
             ELSE findFrom(lineDescriptions, lineNumber, i + 1)

\* lineDescriptions.find((desc) => desc.lines.includes(lineNumber))
findAt(lineNumber, lineDescriptions) == findFrom(lineDescriptions, lineNumber, 1)

\* One element of the decoration array: new monaco.Range(n, 1, n, 1) with
\* the constant whole-line options.  Nothing of the annotation but the line
\* number goes into it.
Decoration(lineNumber) ==
    [range |-> [startLineNumber |-> lineNumber, startColumn |-> 1,
                endLineNumber |-> lineNumber, endColumn |-> 1],
     isWholeLine |-> TRUE,
     className |-> "bg-info bg-opacity-10"]

\* desc.lines.map((lineNumber) => ({range, options}))
decorationsOf(desc) == [i \in DOMAIN desc.lines |-> Decoration(desc.lines[i])]

\* lineDescriptions.flatMap(...) from index i on.
RECURSIVE flatMapFrom(_, _)
flatMapFrom(lineDescriptions, i) ==
    IF i > Len(lineDescriptions)
      THEN <<>>
      ELSE decorationsOf(lineDescriptions[i]) \o flatMapFrom(lineDescriptions, i + 1)

createLineDescriptionDecorations(lineDescriptions) ==
    flatMapFrom(lineDescriptions, 1)

\* ------------------------------------------------- overlay specification
InitOverlay ==
    /\ oann \in DescriptionLists(MaxAnnotations, MaxLineSet, MaxHoverLine)
    /\ oline \in 1..MaxHoverLine
    /\ ostage = "input"
    /\ ofound = Null
    /\ odecos = <<>>
    /\ IdleCore
    /\ IdleUtil
    /\ IdleMeta
    /\ IdleViewer
    /\ IdleAuthor

\* The lookup of the hover provider and of the mouse-move listener.
HoverLookup ==
    /\ ostage = "input"
    /\ ofound' = findAt(oline, oann)
    /\ ostage' = "hover"
    /\ UNCHANGED <<oann, oline, odecos, corevars, uvars, tvars, vvars, wvars>>

\* A call of createLineDescriptionDecorations.
Decorate ==
    /\ ostage = "input"
    /\ odecos' = createLineDescriptionDecorations(oann)
    /\ ostage' = "decorations"
    /\ UNCHANGED <<oann, oline, ofound, corevars, uvars, tvars, vvars, wvars>>

NextOverlay == HoverLookup \/ Decorate

SpecOverlay == InitOverlay /\ [][NextOverlay]_vars

\* The least member of a non-empty set of numbers.
Least(S) == CHOOSE x \in S : \A y \in S : x <= y

\* The list indices of the annotations whose line set contains the line.
Hits(lineDescriptions, lineNumber) ==
    {k \in DOMAIN lineDescriptions : lineNumber \in LineSet(lineDescriptions[k])}

\* C11: findAt returns the annotation with the smallest list index whose
\* line set contains the line, and null when no annotation contains it.
C11_FindAtFirst ==
    ostage = "hover" =>
        IF Hits(oann, oline) = {}
          THEN ofound = Null
          ELSE ofound = <<oann[Least(Hits(oann, oline))]>>

\* Two different annotations contain the hovered line, the later one has
\* more lines, and the earlier one was returned.
C11_Witness ==
    /\ ostage = "hover"
    /\ Len(oann) = 2
    /\ Hits(oann, oline) = {1, 2}
    /\ oann[1].content # oann[2].content
    /\ LineSet(oann[1]) # LineSet(oann[2])
    /\ ofound = <<oann[1]>>

\* The number of members of the line sets of the first k annotations.
RECURSIVE MembersBefore(_, _)
MembersBefore(lineDescriptions, k) ==
    IF k = 0
      THEN 0
      ELSE MembersBefore(lineDescriptions, k - 1)
           + Cardinality(LineSet(lineDescriptions[k]))

\* The list index of the annotation the claim makes the p-th decoration
\* originate from.
Origin(lineDescriptions, p) ==
    Least({k \in DOMAIN lineDescriptions : p <= MembersBefore(lineDescriptions, k)})

\* C12 (as claimed): one whole-line decoration per member of each
\* annotation's line set, annotation after annotation, and the annotation a
\* decoration originates from is a function of the decoration.
C12_DecorationFanOut ==
    ostage = "decorations" =>
        /\ Len(odecos) = MembersBefore(oann, Len(oann))
        /\ \A k \in DOMAIN oann :
             LET first == MembersBefore(oann, k - 1) + 1
                 last  == MembersBefore(oann, k)
             IN  /\ \A p \in first..last :
                       /\ odecos[p].isWholeLine
                       /\ odecos[p].range.endLineNumber
                            = odecos[p].range.startLineNumber
                 /\ {odecos[p].range.startLineNumber : p \in first..last}
                      = LineSet(oann[k])
        /\ \A p, q \in DOMAIN odecos :
             odecos[p] = odecos[q] => Origin(oann, p) = Origin(oann, q)

\* ------------------------------------------------------- workshop viewer
\* (WorkshopViewer.tsx).  A step is reduced to its lineDescriptions and its
\* diffWithPreviousStep flag.
WorkshopStep(lineDescriptions, diff) ==
    [lineDescriptions |-> lineDescriptions, diffWithPreviousStep |-> diff]

\* The annotation lists of the steps shown: no annotation, one annotation,
\* two annotations that share line 2.
StepLists ==
    {<<>>,
     <<LineDescription(<<1>>, "a")>>,
     <<LineDescription(<<1, 2>>, "a"), LineDescription(<<2>>, "b")>>}

WorkshopSteps == {WorkshopStep(l, d) : l \in StepLists, d \in BOOLEAN}

\* workshop.steps of the workshops handed to the viewer (never empty: the
\* render reads currentStep.title).
Workshops(n) == UNION {[1..k -> WorkshopSteps] : k \in 1..n}

\* workshop.steps[currentStepIndex]
currentStep(steps, index) == steps[index + 1]

\* currentStepIndex > 0 ? workshop.steps[currentStepIndex - 1] : null
previousStep(steps, index) == IF index > 0 THEN <<steps[index]>> ELSE Null

isLastStep(steps, index) == index = Len(steps) - 1

\* Mutant of prevStepIndex: no clamp at 0.
prevStepIndexUnclamped(prev) == prev - 1

\* The updater of handlePrevStep: (prev) => Math.max(0, prev - 1)
prevStepIndex(prev) == Max(0, prev - 1)

\* Mutant of renderedEditor: the previousStep test is missing.
renderedEditorAnyStep(steps, index, diff) ==
    IF currentStep(steps, index).diffWithPreviousStep /\ diff
      THEN [kind |-> "diff", key |-> index]
      ELSE [kind |-> "regular", key |-> index]

\* The ternary of the render: the one editor element rendered, and the step
\* index in its key.
renderedEditor(steps, index, diff) ==
    IF /\ currentStep(steps, index).diffWithPreviousStep
       /\ previousStep(steps, index) # Null
       /\ diff
      THEN [kind |-> "diff", key |-> index]
      ELSE [kind |-> "regular", key |-> index]

\* React keeps the mounted element when type and key are those of the last
\* render and replaces it by a new instance (not yet mounted) otherwise.
reconcile(old, el) ==
    IF el.kind = old.kind /\ el.key = old.key
      THEN old
      ELSE [kind |-> el.kind, key |-> el.key, inst |-> old.inst + 1,
            ready |-> FALSE]

\* model.deltaDecorations(oldDecorations, newDecorations) on the model of
\* editor instance inst: the decorations with the old ids are removed (ids
\* the model does not hold are ignored), the new ones are added under new
\* ids, which are returned in the order of newDecorations.
deltaDecorations(model, inst, oldDecorations, newDecorations) ==
    LET kept  == {d \in model.decorations : ~includes(oldDecorations, d.id)}
        ids   == [p \in DOMAIN newDecorations |-> <<inst, model.last + p>>]
        added == {[id |-> ids[p], options |-> newDecorations[p]] :
                    p \in DOMAIN newDecorations}
    IN  [model |-> [decorations |-> kept \cup added,
                    last |-> model.last + Len(newDecorations)],
         ids |-> ids]

\* Mutant of updateEditorDecorations: the stored id list is not reset, the
\* new ids are appended to it.
updateEditorDecorationsKeep(editor, step, model, stored) ==
    IF editor = 0 \/ step = Null
      THEN [model |-> model, stored |-> stored]
      ELSE LET cleared == IF Len(stored) > 0
                            THEN deltaDecorations(model, editor, stored, <<>>).model
                            ELSE model
               new == deltaDecorations(cleared, editor, <<>>,
                        createLineDescriptionDecorations(step[1].lineDescriptions))
           IN  [model |-> new.model, stored |-> stored \o new.ids]

\* updateEditorDecorations for editorRef.current = editor (0 = null), the
\* step of the closure (Null = undefined), the editor's model and
\* decorationsRef.current = stored: the model and the stored ids afterwards.
\* A mounted editor has a model, so the !model return is never taken.
updateEditorDecorations(editor, step, model, stored) ==
    IF editor = 0 \/ step = Null
      THEN [model |-> model, stored |-> stored]
      ELSE LET cleared == IF Len(stored) > 0
                            THEN deltaDecorations(model, editor, stored, <<>>).model
                            ELSE model
               new == deltaDecorations(cleared, editor, <<>>,
                        createLineDescriptionDecorations(step[1].lineDescriptions))
           IN  [model |-> new.model, stored |-> new.ids]

\* The popup of a description hovered at a line (the position is computed
\* from the hovered position; getScrolledVisiblePosition is non-null while
\* the editor has a model).
Popup(desc, lineNumber) == [content |-> desc.content, position |-> lineNumber]

\* Mutant of onMouseMove: a miss leaves the popup as it is.
onMouseMoveSticky(step, target, active) ==
    IF target = 0
      THEN active
      ELSE LET description == findAt(target, step.lineDescriptions)
           IN  IF description # Null
                 THEN <<Popup(description[1], target)>>
                 ELSE active

\* The mouse-move listener for the step of its closure, the line of
\* e.target.position (0 = no position) and the popup shown: the popup
\* afterwards.
onMouseMove(step, target, active) ==
    IF target = 0
      THEN active
      ELSE LET description == findAt(target, step.lineDescriptions)
           IN  IF description # Null
                 THEN <<Popup(description[1], target)>>
                 ELSE Null

\* The mouse-leave listener.
onMouseLeave(active) == Null

\* -------------------------------------------------- viewer specification
\* A click handler, the render of the state it set and the commit of that
\* render are one step (React finishes them before the next event).  The
\* mount of a new editor element is a later step: the editor library calls
\* onMount only once the editor has been created.
InitViewer ==
    /\ vsteps \in Workshops(MaxSteps)
    /\ currentStepIndex = 0
    /\ showDiff = FALSE
    /\ activeDescription = Null
    /\ shown = reconcile(NoEditor, renderedEditor(vsteps, 0, FALSE))
    /\ editorRef = 0
    /\ decorationsRef = <<>>
    /\ vmodel = EmptyModel
    /\ hoverStep = Null
    /\ vev = NoEvent
    /\ IdleCore
    /\ IdleUtil
    /\ IdleOverlay
    /\ IdleMeta
    /\ IdleAuthor

\* The render after currentStepIndex and showDiff got the given values.  A
\* replaced editor takes its model, its decorations and its listeners with
\* it; the refs keep what they held.  With an index that names no step the
\* render throws on currentStep.title and nothing is shown any more.
ViewerRender(index, diff) ==
    LET element == IF index \in 0..(Len(vsteps) - 1)
                     THEN renderedEditor(vsteps, index, diff)
                     ELSE [kind |-> "crashed", key |-> index]
        next == reconcile(shown, element)
    IN  /\ next.inst <= MaxMounts
        /\ shown' = next
        /\ vmodel' = IF next = shown THEN vmodel ELSE EmptyModel
        /\ hoverStep' = IF next = shown THEN hoverStep ELSE Null

\* onClick={() => setCurrentStepIndex(index)} of the step list.
SelectStep(index) ==
    /\ currentStepIndex' = index
    /\ ViewerRender(index, showDiff)
    /\ vev' = [kind |-> "select"]
    /\ UNCHANGED <<vsteps, showDiff, activeDescription, editorRef, decorationsRef>>

\* handleNextStep: on the last step it calls handleComplete (navigation or
\* onComplete, no state of the viewer is set), else it moves one step on.
handleNextStep ==
    IF isLastStep(vsteps, currentStepIndex)
      THEN /\ vev' = [kind |-> "complete"]
           /\ UNCHANGED <<vsteps, currentStepIndex, showDiff, activeDescription,
                          shown, editorRef, decorationsRef, vmodel, hoverStep>>
      ELSE /\ currentStepIndex' = currentStepIndex + 1
           /\ ViewerRender(currentStepIndex + 1, showDiff)
           /\ vev' = [kind |-> "next"]
           /\ UNCHANGED <<vsteps, showDiff, activeDescription, editorRef,
                          decorationsRef>>

\* handlePrevStep.  The Previous button is disabled on step 0; the handler
\* clamps by itself and is taken on every step.
handlePrevStep ==
    /\ currentStepIndex' = prevStepIndex(currentStepIndex)
    /\ ViewerRender(prevStepIndex(currentStepIndex), showDiff)
    /\ vev' = [kind |-> "prev"]
    /\ UNCHANGED <<vsteps, showDiff, activeDescription, editorRef, decorationsRef>>

\* The Show/Hide Changes button, rendered for a step flagged
\* diffWithPreviousStep that has a previous step.
ToggleDiff ==
    /\ currentStep(vsteps, currentStepIndex).diffWithPreviousStep
    /\ previousStep(vsteps, currentStepIndex) # Null
    /\ showDiff' = ~showDiff
    /\ ViewerRender(currentStepIndex, ~showDiff)
    /\ vev' = [kind |-> "toggle"]
    /\ UNCHANGED <<vsteps, currentStepIndex, activeDescription, editorRef,
                   decorationsRef>>

\* handleEditorDidMount of the regular editor: the ref is set, the
\* decorations are updated and the two mouse listeners are registered with
\* the currentStep of the handler's closure.
handleEditorDidMount ==
    /\ shown.kind = "regular"
    /\ ~shown.ready
    /\ LET step == currentStep(vsteps, currentStepIndex)
           done == updateEditorDecorations(shown.inst, <<step>>, vmodel,
                                           decorationsRef)
       IN  /\ editorRef' = shown.inst
           /\ vmodel' = done.model
           /\ decorationsRef' = done.stored
           /\ hoverStep' = <<step>>
    /\ shown' = [shown EXCEPT !.ready = TRUE]
    /\ vev' = [kind |-> "mount", replaced |-> Len(decorationsRef) > 0]
    /\ UNCHANGED <<vsteps, currentStepIndex, showDiff, activeDescription>>

\* handleDiffEditorDidMount: nothing is done with the diff editor.
handleDiffEditorDidMount ==
    /\ shown.kind = "diff"
    /\ ~shown.ready
    /\ shown' = [shown EXCEPT !.ready = TRUE]
    /\ vev' = [kind |-> "diffmount"]
    /\ UNCHANGED <<vsteps, currentStepIndex, showDiff, activeDescription,
                   editorRef, decorationsRef, vmodel, hoverStep>>

\* A mouse-move event of the mounted regular editor.
MouseMove(target) ==
    /\ shown.kind = "regular"
    /\ shown.ready
    /\ activeDescription' = onMouseMove(hoverStep[1], target, activeDescription)
    /\ vev' = [kind |-> "move", line |-> target]
    /\ UNCHANGED <<vsteps, currentStepIndex, showDiff, shown, editorRef,
                   decorationsRef, vmodel, hoverStep>>

\* A mouse-leave event of the mounted regular editor.
MouseLeave ==
    /\ shown.kind = "regular"
    /\ shown.ready
    /\ activeDescription' = onMouseLeave(activeDescription)
    /\ vev' = [kind |-> "leave"]
    /\ UNCHANGED <<vsteps, currentStepIndex, showDiff, shown, editorRef,
                   decorationsRef, vmodel, hoverStep>>

\* The close button of the popup.
ClosePopup ==
    /\ activeDescription # Null
    /\ activeDescription' = Null
    /\ vev' = [kind |-> "close"]
    /\ UNCHANGED <<vsteps, currentStepIndex, showDiff, shown, editorRef,
                   decorationsRef, vmodel, hoverStep>>

NextViewer ==
    \/ /\ shown.kind # "crashed"
       /\ \/ \E index \in 0..(Len(vsteps) - 1) : SelectStep(index)
          \/ handleNextStep
          \/ handlePrevStep
          \/ ToggleDiff
          \/ handleEditorDidMount
          \/ handleDiffEditorDidMount
          \/ \E target \in 0..MaxHoverLine : MouseMove(target)
          \/ MouseLeave
          \/ ClosePopup
       /\ UNCHANGED <<corevars, uvars, ovars, tvars, wvars>>

SpecViewer == InitViewer /\ [][NextViewer]_vars

\* The ids of the decorations a model holds.
DecorationIds(model) == {d.id : d \in model.decorations}

\* The decoration a model holds under an id.
DecorationAt(model, id) == CHOOSE d \in model.decorations : d.id = id

\* The members of a sequence.
Range(seq) == {seq[p] : p \in DOMAIN seq}

C16_DiffExclusive ==
    LET diffMode == /\ currentStep(vsteps, currentStepIndex).diffWithPreviousStep
                    /\ currentStepIndex > 0
                    /\ showDiff
    IN  /\ shown.kind \in {"diff", "regular"}
        /\ shown.kind = "diff" <=> diffMode
        /\ shown.key = currentStepIndex
        /\ shown.kind = "diff" => vmodel.decorations = {}

\* The diff editor is mounted for an annotated step whose decorations were
\* on the regular editor before.
C16_Witness ==
    /\ shown.kind = "diff"
    /\ shown.ready
    /\ currentStep(vsteps, currentStepIndex).lineDescriptions # <<>>
    /\ decorationsRef # <<>>
    /\ decorationsRef[1][1] = editorRef
    /\ shown.key = currentStepIndex

\* C20: a mouse move over a line shows the popup of findAt(line) on the
\* current step's annotations or clears it when there is none, a mouse leave
\* clears it, and no other event of the editor (a move without a position,
\* a mount, a step change, a diff toggle) changes it.  The popup's own close
\* button is not an event of the editor.
C20_HoverPopup ==
    [][LET found == findAt(vev'.line,
                      currentStep(vsteps, currentStepIndex).lineDescriptions)
       IN  /\ (vev'.kind = "move" /\ vev'.line # 0) =>
                 IF found # Null
                   THEN /\ activeDescription' # Null
                        /\ activeDescription'[1].content = found[1].content
                        /\ activeDescription'[1].position = vev'.line
                   ELSE activeDescription' = Null
           /\ vev'.kind = "leave" => activeDescription' = Null
           /\ (vev'.kind \notin {"move", "leave", "close"}
                 \/ (vev'.kind = "move" /\ vev'.line = 0))
                => activeDescription' = activeDescription]_vars

\* The mouse moved over a line that two annotations contain and the popup
\* shows the content of the first.
C20_Witness ==
    /\ vev.kind = "move"
    /\ vev.line # 0
    /\ Cardinality(Hits(currentStep(vsteps, currentStepIndex).lineDescriptions,
                        vev.line)) = 2
    /\ activeDescription # Null
    /\ activeDescription[1].content = "a"

\* ------------------------------------------------------- workshop editor
\* (WorkshopEditor, part_008).  A step is reduced to its id and its
\* lineDescriptions; the descriptions made here keep the empty content they
\* are created with, and a lines input names at most one line.
AuthorStep(id, lineDescriptions) ==
    [id |-> id, lineDescriptions |-> lineDescriptions]

\* parseLineNumbers(e.target.value) for the inputs typed into a Lines field.
LinesInputs == LineArrays(1, MaxHoverLine)

\* const newDescription = {lines: [], content: ""}
newDescription == LineDescription(<<>>, "")

\* The workshops the editor is opened with: a new workshop (steps: []) or a
\* saved one whose steps have no description or one for line 1.
SavedLists == {<<>>, <<LineDescription(<<1>>, "")>>}

InitialWorkshops ==
    {<<>>} \cup UNION {{[i \in 1..k |-> AuthorStep(i, l[i])] : l \in [1..k -> SavedLists]} :
                        k \in 1..MaxSteps}

\* No Editor element; inst counts the Editor instances created so far and
\* first is the step of the closure of the element's first render.
NoStepEditor ==
    [kind |-> "none", key |-> 0, inst |-> 0, ready |-> FALSE, first |-> Null]

\* filter((_, index) => index !== stepIndex) and its like: the sequence
\* without the element at 0-based index i.
without(seq, i) ==
    [p \in 1..(Len(seq) - 1) |-> IF p <= i THEN seq[p] ELSE seq[p + 1]]

\* steps.splice(fromIndex, 1) followed by steps.splice(toIndex, 0, removed)
\* for neighbouring 0-based indices.
moved(steps, fromIndex, toIndex) ==
    [p \in DOMAIN steps |->
        IF p = toIndex + 1 THEN steps[fromIndex + 1]
        ELSE IF p = fromIndex + 1 THEN steps[toIndex + 1]
        ELSE steps[p]]

\* handleUpdateStep(stepIndex, {lineDescriptions})
handleUpdateStep(steps, stepIndex, lineDescriptions) ==
    [p \in DOMAIN steps |->
        IF p = stepIndex + 1
          THEN [steps[p] EXCEPT !.lineDescriptions = lineDescriptions]
          ELSE steps[p]]

\* workshop.steps[selectedStepIndex] (Null = undefined).
selectedStep(steps, index) ==
    IF index >= 0 /\ index < Len(steps) THEN <<steps[index + 1]>> ELSE Null

\* crypto.randomUUID(): an id no step and no closure holds.
freshId ==
    LET used == {wsteps[p].id : p \in DOMAIN wsteps}
                  \cup {wshown.first[p].id : p \in DOMAIN wshown.first}
                  \cup {whover[p].id : p \in DOMAIN whover}
    IN  Least((1..(Cardinality(used) + 1)) \ used)

\* The render of WorkshopEditor for the given steps and selectedStepIndex.
\* With index -1 the details form is rendered and the Editor is unmounted;
\* an index without a step makes the render throw (it reads .title of
\* undefined), which unmounts the component; otherwise the step form holds
\* one Editor without a key, which stays mounted from render to render.
AuthorRender(steps, index) ==
    IF index = -1
      THEN /\ wshown' = [NoStepEditor EXCEPT !.inst = wshown.inst]
           /\ wmodel' = EmptyModel
           /\ whover' = Null
      ELSE IF selectedStep(steps, index) = Null
        THEN /\ wshown' = [NoStepEditor EXCEPT !.kind = "crashed",
                                               !.inst = wshown.inst]
             /\ wmodel' = EmptyModel
             /\ whover' = Null
        ELSE IF wshown.kind = "regular"
          THEN UNCHANGED <<wshown, wmodel, whover>>
          ELSE /\ wshown.inst < MaxEditors
               /\ wshown' = [kind |-> "regular", key |-> 0,
                             inst |-> wshown.inst + 1, ready |-> FALSE,
                             first |-> selectedStep(steps, index)]
               /\ wmodel' = EmptyModel
               /\ whover' = Null

\* -------------------------------------------------- author specification
\* A handler, the render of the state it set and the commit are one step.
\* A timer callback and the mount callback of the Editor are steps of their
\* own.
InitAuthor ==
    /\ wsteps \in InitialWorkshops
    /\ selectedStepIndex = -1
    /\ timers = <<>>
    /\ wshown = NoStepEditor
    /\ wdecorationsRef = <<>>
    /\ wmodel = EmptyModel
    /\ whover = Null
    /\ wev = NoEvent
    /\ IdleCore
    /\ IdleUtil
    /\ IdleOverlay
    /\ IdleMeta
    /\ IdleViewer

Running == wshown.kind # "crashed"

\* handleSelectStep(index): setSelectedStepIndex(-1) now, and a timer that
\* will call setSelectedStepIndex(index).
handleSelectStep(index) ==
    /\ Running
    /\ Len(timers) < MaxTimers
    /\ selectedStepIndex' = -1
    /\ timers' = Append(timers, index)
    /\ AuthorRender(wsteps, -1)
    /\ wev' = [kind |-> "step"]
    /\ UNCHANGED <<wsteps, wdecorationsRef>>

\* The callback of the oldest pending timer: setSelectedStepIndex(index).
TimerFired ==
    /\ Running
    /\ timers # <<>>
    /\ selectedStepIndex' = Head(timers)
    /\ timers' = Tail(timers)
    /\ AuthorRender(wsteps, Head(timers))
    /\ wev' = [kind |-> "step"]
    /\ UNCHANGED <<wsteps, wdecorationsRef>>

\* handleAddStep: a step without descriptions is appended and selected
\* through handleSelectStep(workshop.steps.length).
handleAddStep ==
    /\ Running
    /\ Len(wsteps) < MaxSteps
    /\ Len(timers) < MaxTimers
    /\ wsteps' = Append(wsteps, AuthorStep(freshId, <<>>))
    /\ selectedStepIndex' = -1
    /\ timers' = Append(timers, Len(wsteps))
    /\ AuthorRender(wsteps', -1)
    /\ wev' = [kind |-> "step"]
    /\ UNCHANGED wdecorationsRef

\* handleDeleteStep(stepIndex)
handleDeleteStep(stepIndex) ==
    /\ Running
    /\ wsteps' = without(wsteps, stepIndex)
    /\ selectedStepIndex' = -1
    /\ AuthorRender(wsteps', -1)
    /\ wev' = [kind |-> "step"]
    /\ UNCHANGED <<timers, wdecorationsRef>>

\* handleMoveStep(fromIndex, toIndex) from the up and down buttons.
handleMoveStep(fromIndex, toIndex) ==
    /\ Running
    /\ ~(toIndex < 0 \/ toIndex >= Len(wsteps))
    /\ wsteps' = moved(wsteps, fromIndex, toIndex)
    /\ selectedStepIndex' = toIndex
    /\ AuthorRender(wsteps', toIndex)
    /\ wev' = [kind |-> "step"]
    /\ UNCHANGED <<timers, wdecorationsRef>>

\* The handlers of the step form; it is rendered while a step is selected.
FormShown == Running /\ selectedStep(wsteps, selectedStepIndex) # Null

\* The Add Description button.
AddDescription ==
    /\ FormShown
    /\ Len(selectedStep(wsteps, selectedStepIndex)[1].lineDescriptions)
         < MaxDescriptions
    /\ wsteps' = handleUpdateStep(wsteps, selectedStepIndex,
                   Append(selectedStep(wsteps, selectedStepIndex)[1].lineDescriptions,
                          newDescription))
    /\ AuthorRender(wsteps', selectedStepIndex)
    /\ wev' = [kind |-> "edit"]
    /\ UNCHANGED <<selectedStepIndex, timers, wdecorationsRef>>

\* onChange of the Lines input of description index.
EditLines(index, lines) ==
    /\ FormShown
    /\ LET descriptions == selectedStep(wsteps, selectedStepIndex)[1].lineDescriptions
       IN  /\ index + 1 \in DOMAIN descriptions
           /\ wsteps' = handleUpdateStep(wsteps, selectedStepIndex,
                          [descriptions EXCEPT ![index + 1].lines = lines])
    /\ AuthorRender(wsteps', selectedStepIndex)
    /\ wev' = [kind |-> "edit"]
    /\ UNCHANGED <<selectedStepIndex, timers, wdecorationsRef>>

\* The delete button of description index.
DeleteDescription(index) ==
    /\ FormShown
    /\ LET descriptions == selectedStep(wsteps, selectedStepIndex)[1].lineDescriptions
       IN  /\ index + 1 \in DOMAIN descriptions
           /\ wsteps' = handleUpdateStep(wsteps, selectedStepIndex,
                          without(descriptions, index))
    /\ AuthorRender(wsteps', selectedStepIndex)
    /\ wev' = [kind |-> "edit"]
    /\ UNCHANGED <<selectedStepIndex, timers, wdecorationsRef>>

\* handleEditorDidMount of WorkshopEditor.  The handler, its
\* updateEditorDecorations and its listeners read workshop and
\* selectedStepIndex from the render that made the handler.  Which render's
\* handler the editor library calls is not decided in this repository: the
\* one the Editor element was first rendered with, or the latest one.
EditorMounted(closure) ==
    /\ wshown.kind = "regular"
    /\ ~wshown.ready
    /\ closure \in {wshown.first, selectedStep(wsteps, selectedStepIndex)}
    /\ LET done == updateEditorDecorations(wshown.inst, closure, wmodel,
                                           wdecorationsRef)
       IN  /\ wmodel' = done.model
           /\ wdecorationsRef' = done.stored
    /\ whover' = closure
    /\ wshown' = [wshown EXCEPT !.ready = TRUE]
    /\ wev' = [kind |-> "mount",
               stale |-> closure[1].id
                           # selectedStep(wsteps, selectedStepIndex)[1].id]
    /\ UNCHANGED <<wsteps, selectedStepIndex, timers>>

NextAuthor ==
    \/ /\ \/ \E index \in 0..(Len(wsteps) - 1) : handleSelectStep(index)
          \/ TimerFired
          \/ handleAddStep
          \/ \E index \in 0..(Len(wsteps) - 1) : handleDeleteStep(index)
          \/ \E index \in 0..(Len(wsteps) - 1), d \in {-1, 1} :
               handleMoveStep(index, index + d)
          \/ AddDescription
          \/ \E index \in 0..(MaxDescriptions - 1), lines \in LinesInputs :
               EditLines(index, lines)
          \/ \E index \in 0..(MaxDescriptions - 1) : DeleteDescription(index)
          \/ \E closure \in {wshown.first, selectedStep(wsteps, selectedStepIndex)} :
               EditorMounted(closure)
       /\ UNCHANGED <<corevars, uvars, ovars, tvars, vvars>>

SpecAuthor == InitAuthor /\ [][NextAuthor]_vars

\* The options of the decorations under the stored ids, in stored order.
StoredDecorations(model, stored) ==
    [p \in DOMAIN stored |-> DecorationAt(model, stored[p]).options]

\* C14 (as claimed): a mount callback made for a step that is no longer the
\* selected one changes no decoration of the editor.
C14_StaleCallbackGuard ==
    [][(wev'.kind = "mount" /\ wev'.stale)
         => (wmodel' = wmodel /\ wdecorationsRef' = wdecorationsRef)]_vars

\* The overlay of the mounted editor is that of the selected step: the
\* decorations on the model are those computed from the step's current
\* lineDescriptions and the hover lookup answers as findAt on that list.
OverlayFresh ==
    LET current == selectedStep(wsteps, selectedStepIndex)[1].lineDescriptions
    IN  /\ Range(wdecorationsRef) = DecorationIds(wmodel)
        /\ StoredDecorations(wmodel, wdecorationsRef)
             = createLineDescriptionDecorations(current)
        /\ \A lineNumber \in 1..MaxHoverLine :
             findAt(lineNumber, whover[1].lineDescriptions)
               = findAt(lineNumber, current)

\* C15 (as claimed): while the mounted editor of a step is shown its
\* overlay is that of the step's current annotation list, and it is so
\* again after an annotation was added, deleted or given other lines.
\* Stated for the edits made while the overlay is fresh.
C15_OverlayFresh ==
    [][(/\ wev'.kind = "edit"
        /\ wshown.kind = "regular"
        /\ wshown.ready
        /\ OverlayFresh)
       => OverlayFresh']_vars

\* ----------------------------------------------------- begin-line metadata
\* A string is the sequence of its characters; the two default strings of
\* the parser are one token each.
Chars == {"x", " ", "-"}

DefaultTitle == <<"Editable Section">>

DefaultDescription == <<"This section can be modified">>

RECURSIVE StringsOf(_)
StringsOf(n) ==
    IF n = 0 THEN {<<>>}
    ELSE LET shorter == StringsOf(n - 1)
         IN shorter \cup {Append(s, c) : s \in {r \in shorter : Len(r) = n - 1},
                                         c \in Chars}

\* A line of the playground text: kind "B" holds "// @editable-begin"
\* followed by rest, kind "E" holds the end-sentinel, kind "N" neither.
MetaLine(kind, rest) == [kind |-> kind, rest |-> rest]

TitledRegion(start, end, title, description) ==
    [start |-> start, end |-> end, title |-> title, description |-> description]

\* Number of whitespace characters at the front of s.
RECURSIVE leadingSpaces(_)
leadingSpaces(s) ==
    IF s # <<>> /\ Head(s) = " " THEN 1 + leadingSpaces(Tail(s)) ELSE 0

RECURSIVE trimEnd(_)
trimEnd(s) ==
    IF s # <<>> /\ s[Len(s)] = " " THEN trimEnd(SubSeq(s, 1, Len(s) - 1)) ELSE s

\* Mutant of trim: leading whitespace only.
trimStartOnly(s) == SubSeq(s, leadingSpaces(s) + 1, Len(s))

\* String.prototype.trim.
trim(s) == trimEnd(SubSeq(s, leadingSpaces(s) + 1, Len(s)))

\* Position of the first dash of s, 0 when there is none.
firstDash(s) ==
    IF \E p \in 1..Len(s) : s[p] = "-"
      THEN CHOOSE p \in 1..Len(s) : s[p] = "-" /\ \A q \in 1..(p - 1) : s[q] # "-"
      ELSE 0

\* line.match(/\/\/ @editable-begin\s*([^-]+)-\s*(.+)/) on a begin line:
\* [^-]+ cannot cross a dash and must be followed by one, so the dash
\* matched is the first dash of rest; each greedy \s* takes the leading
\* whitespace but gives the last character back when the group after it
\* would be empty. Null when there is no match, else the two groups.
match(rest) ==
    LET d == firstDash(rest)
    IN IF d <= 1 \/ d = Len(rest)
         THEN Null
         ELSE LET before == SubSeq(rest, 1, d - 1)
                  after == SubSeq(rest, d + 1, Len(rest))
                  ws1 == Min(leadingSpaces(before), Len(before) - 1)
                  ws2 == Min(leadingSpaces(after), Len(after) - 1)
              IN <<[g1 |-> SubSeq(before, ws1 + 1, Len(before)),
                    g2 |-> SubSeq(after, ws2 + 1, Len(after))]>>

NoTitled ==
    [regions |-> <<>>, currentStart |-> <<>>,
     currentTitle |-> <<>>, currentDescription |-> <<>>]

\* Mutant of titledStep: a begin line that does not match keeps the
\* current title and description.
titledStepNoDefault(acc, line, index) ==
    IF line.kind = "B"
      THEN LET m == match(line.rest)
           IN [acc EXCEPT
                 !.currentStart = <<index + 1>>,
                 !.currentTitle = IF m # Null THEN trim(m[1].g1) ELSE @,
                 !.currentDescription = IF m # Null THEN trim(m[1].g2) ELSE @]
      ELSE IF line.kind = "E" /\ acc.currentStart # <<>>
        THEN [NoTitled EXCEPT
                !.regions = Append(acc.regions,
                                   TitledRegion(acc.currentStart[1], index,
                                                acc.currentTitle,
                                                acc.currentDescription))]
        ELSE acc

\* One iteration of lines.forEach((line, index) => ...) of the playground
\* parser, title and description included.
titledStep(acc, line, index) ==
    IF line.kind = "B"
      THEN LET m == match(line.rest)
           IN [acc EXCEPT
                 !.currentStart = <<index + 1>>,
                 !.currentTitle = IF m # Null THEN trim(m[1].g1)
                                  ELSE DefaultTitle,
                 !.currentDescription = IF m # Null THEN trim(m[1].g2)
                                        ELSE DefaultDescription]
      ELSE IF line.kind = "E" /\ acc.currentStart # <<>>
        THEN [NoTitled EXCEPT
                !.regions = Append(acc.regions,
                                   TitledRegion(acc.currentStart[1], index,
                                                acc.currentTitle,
                                                acc.currentDescription))]
        ELSE acc

RECURSIVE titledFrom(_, _, _)
titledFrom(acc, t, p) ==
    IF p > Len(t) THEN acc
    ELSE titledFrom(titledStep(acc, t[p], p - 1), t, p + 1)

\* The regions of the playground for the lines t.
parseTitled(t) == titledFrom(NoTitled, t, 1).regions

\* A begin line, a plain line and an end line.
Block(rest) == <<MetaLine("B", rest), MetaLine("N", <<>>), MetaLine("E", <<>>)>>

RECURSIVE BlockTexts(_)
BlockTexts(n) ==
    IF n = 0 THEN {<<>>}
    ELSE LET shorter == BlockTexts(n - 1)
         IN shorter \cup {t \o Block(rest) :
                            t \in {r \in shorter : Len(r) = 3 * (n - 1)},
                            rest \in StringsOf(MaxRest)}

\* ----------------------------------------------------- metadata specification
InitMeta ==
    /\ ttext \in BlockTexts(MaxBlocks)
    /\ tstage = "input"
    /\ tregions = <<>>
    /\ IdleCore
    /\ IdleUtil
    /\ IdleOverlay
    /\ IdleViewer
    /\ IdleAuthor

\* The useEffect that parses the playground code.
ParseTitled ==
    /\ tstage = "input"
    /\ tregions' = parseTitled(ttext)
    /\ tstage' = "parsed"
    /\ UNCHANGED <<ttext, corevars, uvars, ovars, vvars, wvars>>

NextMeta == ParseTitled

SpecMeta == InitMeta /\ [][NextMeta]_vars

\* r is s without its leading and trailing whitespace.
IsTrimOf(r, s) ==
    \E i \in 1..(Len(s) + 1) : \E j \in (i - 1)..Len(s) :
        /\ r = SubSeq(s, i, j)
        /\ \A k \in (1..(i - 1)) \cup ((j + 1)..Len(s)) : s[k] = " "
        /\ r # <<>> => (r[1] # " " /\ r[Len(r)] # " ")

\* s holds whitespace only.
Blank(s) == \A k \in 1..Len(s) : s[k] = " "

\* rest has a dash with at least one character on either side of the
\* first one.
DashForm(rest) == firstDash(rest) > 1 /\ firstDash(rest) < Len(rest)

\* The characters that follow the begin-sentinel of the i-th block of t.
RestOf(t, i) == t[3 * (i - 1) + 1].rest

\* C18: a begin line "<title> - <description>" gives a region whose title
\* and description are the trimmed text before and after the (first) dash;
\* a begin line with no text after the sentinel gives the two default
\* strings; the title and description of a region are those the parser
\* gives for its block alone, whatever region came before.
C18_BeginLineMetadata ==
    tstage = "parsed" =>
      /\ Len(tregions) * 3 = Len(ttext)
      /\ \A i \in 1..Len(tregions) :
           LET rest == RestOf(ttext, i)
               d == firstDash(rest)
               alone == parseTitled(Block(rest))[1]
           IN /\ DashForm(rest) =>
                   /\ IsTrimOf(tregions[i].title, SubSeq(rest, 1, d - 1))
                   /\ IsTrimOf(tregions[i].description,
                               SubSeq(rest, d + 1, Len(rest)))
              /\ Blank(rest) =>
                   /\ tregions[i].title = DefaultTitle
                   /\ tregions[i].description = DefaultDescription
              /\ tregions[i].title = alone.title
              /\ tregions[i].description = alone.description

\* A titled region whose title lost surrounding whitespace, followed by a
\* region of a bare begin-sentinel that got the defaults.
C18_Witness ==
    /\ tstage = "parsed"
    /\ Len(tregions) = 2
    /\ DashForm(RestOf(ttext, 1))
    /\ tregions[1].title = <<"x">>
    /\ firstDash(RestOf(ttext, 1)) > 2
    /\ tregions[1].description = <<"x">>
    /\ RestOf(ttext, 2) = <<>>
    /\ tregions[2].title = DefaultTitle
    /\ tregions[2].description = DefaultDescription

\* C29: in the viewer of a workshop with at least one step, every Next,
\* Previous and step click leaves 0 <= currentStepIndex <= steps.length - 1;
\* Previous on step 0 leaves the index at 0; Next on the last step
\* completes and leaves the index as it is, and only there.
C29_StepIndexInRange ==
    [][/\ currentStepIndex' \in 0..(Len(vsteps') - 1)
       /\ (vev'.kind = "prev" /\ currentStepIndex = 0) => currentStepIndex' = 0
       /\ (vev'.kind \in {"next", "complete"}
             /\ isLastStep(vsteps, currentStepIndex))
            => (vev'.kind = "complete" /\ currentStepIndex' = currentStepIndex)
       /\ vev'.kind = "complete" => isLastStep(vsteps, currentStepIndex)]_vars

\* Next has completed on the last of two steps.
C29_Witness ==
    /\ vev.kind = "complete"
    /\ Len(vsteps) = 2
    /\ currentStepIndex = 1

\* C30 (as claimed): whatever the interleaving of add, delete, move and
\* select with the deferred timer of handleSelectStep, selectedStepIndex is
\* -1 or an index of workshop.steps, so the step form never reads a missing
\* step.
C30_SelectionValid ==
    /\ selectedStepIndex = -1 \/ selectedStepIndex \in 0..(Len(wsteps) - 1)
    /\ wshown.kind # "crashed"

\* ------------------------------------------------------------ line numbers
\* (frontend/src/utils/lineUtils.ts).  The Lines input is a string over three
\* digits, the two separators, the hyphen and one character outside the
\* pattern.
Digits == {"0", "1", "2"}

InputChars == Digits \cup {",", " ", "-", "a"}

InputsUpTo(n) == UNION {[1..k -> InputChars] : k \in 0..n}

digitValue(c) == CASE c = "0" -> 0 [] c = "1" -> 1 [] c = "2" -> 2

\* The number a string of digits denotes in base 10 (0 for "").
RECURSIVE decimal(_)
decimal(d) ==
    IF d = <<>> THEN 0
    ELSE 10 * decimal(SubSeq(d, 1, Len(d) - 1)) + digitValue(d[Len(d)])

\* Number of digits at the front of s.
RECURSIVE leadingDigits(_)
leadingDigits(s) ==
    IF s # <<>> /\ Head(s) \in Digits THEN 1 + leadingDigits(Tail(s)) ELSE 0

\* parseInt(s): leading whitespace is skipped, a sign is read, then the
\* longest run of digits; what follows is ignored.  Null is NaN.
parseInt(s) ==
    LET t == SubSeq(s, leadingSpaces(s) + 1, Len(s))
        negative == t # <<>> /\ Head(t) = "-"
        body == IF negative THEN Tail(t) ELSE t
        k == leadingDigits(body)
    IN  IF k = 0 THEN Null
        ELSE <<(IF negative THEN -1 ELSE 1) * decimal(SubSeq(body, 1, k))>>

\* /^[\d,\s-]*$/.test(input)
testPattern(input) == \A i \in 1..Len(input) : input[i] \in InputChars \ {"a"}

\* input.split(/[,\s]+/) from character i on: cur is the part being read,
\* inRun tells whether the last character was a separator.
RECURSIVE splitFrom(_, _, _, _)
splitFrom(s, i, cur, inRun) ==
    IF i > Len(s) THEN <<cur>>
    ELSE IF s[i] \in {",", " "}
      THEN IF inRun THEN splitFrom(s, i + 1, cur, TRUE)
           ELSE <<cur>> \o splitFrom(s, i + 1, <<>>, TRUE)
      ELSE splitFrom(s, i + 1, Append(cur, s[i]), FALSE)

\* part.split("-") from character i on.
RECURSIVE splitHyphenFrom(_, _, _)
splitHyphenFrom(s, i, cur) ==
    IF i > Len(s) THEN <<cur>>
    ELSE IF s[i] = "-" THEN <<cur>> \o splitHyphenFrom(s, i + 1, <<>>)
    ELSE splitHyphenFrom(s, i + 1, Append(cur, s[i]))

\* Mutant of partNumbers: a part is never read as a range.
partNumbersScalar(part) == <<parseInt(part)>>

\* The flatMap callback: the numbers (Null for NaN) a part stands for.
partNumbers(part) ==
    LET range == splitHyphenFrom(trim(part), 1, <<>>)
        start == parseInt(range[1])
        end == parseInt(range[2])
    IN  IF Len(range) = 2 /\ start # Null /\ end # Null /\ start[1] <= end[1]
          THEN [i \in 1..(end[1] - start[1] + 1) |-> <<start[1] + i - 1>>]
          ELSE <<parseInt(part)>>

RECURSIVE flatMapParts(_)
flatMapParts(parts) ==
    IF parts = <<>> THEN <<>>
    ELSE partNumbers(Head(parts)) \o flatMapParts(Tail(parts))

parseLineNumbers(input) ==
    IF trim(input) = <<>> THEN <<>>
    ELSE IF ~testPattern(input) THEN <<>>
    ELSE LET numbers == flatMapParts(splitFrom(input, 1, <<>>, FALSE))
             kept == SelectSeq(numbers, LAMBDA n : n # Null /\ n[1] > 0)
         IN  [i \in 1..Len(kept) |-> kept[i][1]]

\* ------------------------------------------------ line-number specification
InitNumbers ==
    /\ ninput \in InputsUpTo(MaxInput)
    /\ nstage = "input"
    /\ nout = <<>>
    /\ store = <<>>
    /\ sev = NoEvent
    /\ IdleLifecycle
    /\ IdleCore
    /\ IdleOverlay
    /\ IdleMeta
    /\ IdleViewer
    /\ IdleAuthor

\* onChange of a Lines input: parseLineNumbers(e.target.value).
LinesChanged ==
    /\ nstage = "input"
    /\ nout' = parseLineNumbers(ninput)
    /\ nstage' = "parsed"
    /\ UNCHANGED <<ninput, svars, lvars, corevars, ovars, tvars, vvars, wvars>>

NextNumbers == LinesChanged

SpecNumbers == InitNumbers /\ [][NextNumbers]_vars

\* The parts of an input: its maximal runs of characters other than comma
\* and whitespace, in input order.
PartStarts(s) ==
    {i \in 1..Len(s) : s[i] \notin {",", " "} /\ (i = 1 \/ s[i - 1] \in {",", " "})}

PartAt(s, i) ==
    LET j == Least({k \in i..Len(s) : k = Len(s) \/ s[k + 1] \in {",", " "}})
    IN  SubSeq(s, i, j)

AllDigits(p) == p # <<>> /\ \A i \in 1..Len(p) : p[i] \in Digits

\* p is a-b for two digit strings a and b with low <= a <= b.
IsRange(p, low) ==
    \E h \in 2..(Len(p) - 1) :
        /\ p[h] = "-"
        /\ AllDigits(SubSeq(p, 1, h - 1))
        /\ AllDigits(SubSeq(p, h + 1, Len(p)))
        /\ low <= decimal(SubSeq(p, 1, h - 1))
        /\ decimal(SubSeq(p, 1, h - 1)) <= decimal(SubSeq(p, h + 1, Len(p)))

IsNumber(p) == AllDigits(p) /\ decimal(p) >= 1

\* [n] for a positive number, the positive members of a..b in ascending
\* order for a range, nothing for any other part.
Contribution(p) ==
    IF IsNumber(p) THEN <<decimal(p)>>
    ELSE IF IsRange(p, 0)
      THEN LET h == CHOOSE h \in 2..(Len(p) - 1) : p[h] = "-"
               a == Max(1, decimal(SubSeq(p, 1, h - 1)))
               b == decimal(SubSeq(p, h + 1, Len(p)))
           IN  [i \in 1..(b - a + 1) |-> a + i - 1]
      ELSE <<>>

\* The contributions of the parts of s that start in the set starts, in
\* input order.
RECURSIVE Contributions(_, _)
Contributions(s, starts) ==
    IF starts = {} THEN <<>>
    ELSE Contribution(PartAt(s, Least(starts)))
           \o Contributions(s, starts \ {Least(starts)})

\* Every part is a positive integer or an ascending range a-b, 1 <= a <= b.
WellFormedInput(s) ==
    /\ testPattern(s)
    /\ \A i \in PartStarts(s) : IsNumber(PartAt(s, i)) \/ IsRange(PartAt(s, i), 1)

\* C21: for an input whose parts are positive integers and ascending ranges
\* the result is the concatenation, in input order, of [n] and [a, ..., b];
\* an empty or all-whitespace input gives the empty list.
C21_WellFormedLines ==
    nstage = "parsed" =>
      /\ WellFormedInput(ninput) => nout = Contributions(ninput, PartStarts(ninput))
      /\ Blank(ninput) => nout = <<>>

\* A number followed by a range, as in "1, 3, 5-10".
C21_Witness ==
    /\ nstage = "parsed"
    /\ WellFormedInput(ninput)
    /\ Cardinality(PartStarts(ninput)) = 2
    /\ \E i \in PartStarts(ninput) : IsRange(PartAt(ninput, i), 1)
    /\ Len(nout) = 3

\* C22 (as claimed): every element of the result is a positive integer; an
\* input with a character outside digits, commas, whitespace and hyphens
\* gives the empty list; a part that is neither a positive integer nor an
\* ascending range contributes no element.
C22_InvalidFiltered ==
    nstage = "parsed" =>
      /\ \A i \in 1..Len(nout) : nout[i] \in Nat \ {0}
      /\ ~testPattern(ninput) => nout = <<>>
      /\ testPattern(ninput) => nout = Contributions(ninput, PartStarts(ninput))

\* ---------------------------------------------------------- workshop store
\* (frontend/src/services/workshopService.ts).  A workshop is reduced to its
\* id, its title and the optional contractAddress; every value is a string,
\* "undefined" standing for undefined.  localStorage holds Null (no item) or
\* <<array>>, the text JSON.stringify made of an array.
WorkshopIds == {ToString(i) : i \in 1..MaxWorkshops}

WorkshopValues ==
    [id : WorkshopIds, title : {"a", "b"}, contractAddress : {"0x1", "undefined"}]

\* obj.field (undefined for a property the object does not have).
Read(obj, field) == IF field \in DOMAIN obj THEN obj[field] ELSE "undefined"

\* JSON.parse(JSON.stringify(value)) of one workshop: properties whose
\* value is undefined are not written.
jsonRoundTrip(workshop) ==
    [field \in {f \in DOMAIN workshop : workshop[f] # "undefined"} |-> workshop[field]]

\* JSON.stringify(workshops): the stored text, as the array JSON.parse
\* makes of it.
stringify(workshops) ==
    <<[i \in 1..Len(workshops) |-> jsonRoundTrip(workshops[i])]>>

getWorkshops(data) == IF data = Null THEN <<>> ELSE data[1]

\* workshops.findIndex((w) => w.id === id): 0-based, -1 when absent.
findIndex(workshops, id) ==
    IF \E i \in 1..Len(workshops) : workshops[i].id = id
      THEN Least({i \in 1..Len(workshops) : workshops[i].id = id}) - 1
      ELSE -1

\* getWorkshopById: Null for undefined.
getWorkshopById(data, id) ==
    LET workshops == getWorkshops(data)
        index == findIndex(workshops, id)
    IN  IF index >= 0 THEN <<workshops[index + 1]>> ELSE Null

\* Mutant of saveWorkshop: the workshop is always pushed.
saveWorkshopPush(data, workshop) ==
    stringify(Append(getWorkshops(data), workshop))

\* saveWorkshop: what localStorage.setItem is called with.
saveWorkshop(data, workshop) ==
    LET workshops == getWorkshops(data)
        index == findIndex(workshops, workshop.id)
    IN  stringify(IF index >= 0
                    THEN [workshops EXCEPT ![index + 1] = workshop]
                    ELSE Append(workshops, workshop))

\* deleteWorkshop: what localStorage.setItem is called with.
deleteWorkshop(data, id) ==
    stringify(SelectSeq(getWorkshops(data), LAMBDA w : w.id # id))

\* ---------------------------------------------------- store specification
InitStore ==
    /\ store = Null
    /\ sev = NoEvent
    /\ IdleNumbers
    /\ IdleLifecycle
    /\ IdleCore
    /\ IdleOverlay
    /\ IdleMeta
    /\ IdleViewer
    /\ IdleAuthor

\* A call of saveWorkshop; setItem stores the text or throws (quota), and
\* then the function throws "Failed to save workshop".
SaveWorkshop(workshop, ok) ==
    /\ store' = IF ok THEN saveWorkshop(store, workshop) ELSE store
    /\ sev' = [kind |-> "save", workshop |-> workshop, ok |-> ok]
    /\ UNCHANGED <<nvars, lvars, corevars, ovars, tvars, vvars, wvars>>

\* A call of deleteWorkshop.
DeleteWorkshop(id, ok) ==
    /\ store' = IF ok THEN deleteWorkshop(store, id) ELSE store
    /\ sev' = [kind |-> "delete", id |-> id, ok |-> ok]
    /\ UNCHANGED <<nvars, lvars, corevars, ovars, tvars, vvars, wvars>>

NextStore ==
    \/ \E workshop \in WorkshopValues, ok \in BOOLEAN : SaveWorkshop(workshop, ok)
    \/ \E id \in WorkshopIds, ok \in BOOLEAN : DeleteWorkshop(id, ok)

SpecStore == InitStore /\ [][NextStore]_vars

\* The ids of the stored workshops, in store order.
StoredIds(data) == [i \in 1..Len(getWorkshops(data)) |-> getWorkshops(data)[i].id]

\* Two objects read the same on every property of a workshop.
SameWorkshop(a, b) ==
    \A field \in {"id", "title", "contractAddress"} : Read(a, field) = Read(b, field)

\* C23: the ids in the store stay pairwise distinct; after saveWorkshop(w)
\* getWorkshopById(w.id) reads as w, every other stored workshop is as it
\* was and the existing entries keep their relative order; after
\* deleteWorkshop(id) getWorkshopById(id) is undefined and the other
\* workshops are as they were.
C23_StoreUpsert ==
    [][/\ \A i, j \in 1..Len(StoredIds(store')) :
            i # j => StoredIds(store')[i] # StoredIds(store')[j]
       /\ (sev'.kind = "save" /\ sev'.ok) =>
            /\ getWorkshopById(store', sev'.workshop.id) # Null
            /\ SameWorkshop(getWorkshopById(store', sev'.workshop.id)[1],
                            sev'.workshop)
            /\ \A id \in WorkshopIds \ {sev'.workshop.id} :
                 getWorkshopById(store', id) = getWorkshopById(store, id)
            /\ SelectSeq(StoredIds(store'),
                         LAMBDA id : getWorkshopById(store, id) # Null)
                 = StoredIds(store)
       /\ (sev'.kind = "delete" /\ sev'.ok) =>
            /\ getWorkshopById(store', sev'.id) = Null
            /\ \A id \in WorkshopIds \ {sev'.id} :
                 getWorkshopById(store', id) = getWorkshopById(store, id)
            /\ StoredIds(store')
                 = SelectSeq(StoredIds(store), LAMBDA id : id # sev'.id)]_vars

\* A saved workshop without contractAddress has replaced the first of
\* two stored workshops.
C23_Witness ==
    /\ sev.kind = "save"
    /\ sev.ok
    /\ sev.workshop.contractAddress = "undefined"
    /\ Len(getWorkshops(store)) = 2
    /\ StoredIds(store)[1] = sev.workshop.id
    /\ Read(getWorkshops(store)[1], "title") = sev.workshop.title

\* --------------------------------------------------------- guard lifecycle
\* (CodePlaygroundView: the guard effect with its cleanup, and the timer of
\* handleEditorDidMount).  The editor is reduced to its registered key-down
\* and paste listeners, each with the validatedRegions of its closure, and
\* the decorations of its model.
NewEditor == [keyDown |-> {}, paste |-> {}, model |-> EmptyModel, handlers |-> 0]

\* The body of the guard effect for a mounted editor: the decorations are
\* added and the two listeners registered; cleanup is what the returned
\* function holds.
guardEffect(editor, regions, totalLines) ==
    LET validated == validatedRegions(regions, totalLines)
        delta == deltaDecorations(editor.model, 1, <<>>,
                                  guardDecorations(regions, totalLines))
    IN  [editor |->
           [keyDown |-> editor.keyDown
                          \cup {[id |-> editor.handlers + 1, regions |-> validated]},
            paste |-> editor.paste
                        \cup {[id |-> editor.handlers + 2, regions |-> validated]},
            model |-> delta.model,
            handlers |-> editor.handlers + 2],
         cleanup |-> <<[keyDown |-> editor.handlers + 1,
                        paste |-> editor.handlers + 2,
                        decorations |-> delta.ids]>>]

\* The function returned by the guard effect: both disposables are
\* disposed and the effect's decorations removed.
guardCleanup(editor, cleanup) ==
    IF cleanup = Null THEN editor
    ELSE [editor EXCEPT
            !.keyDown = {h \in @ : h.id # cleanup[1].keyDown},
            !.paste = {h \in @ : h.id # cleanup[1].paste},
            !.model = deltaDecorations(@, 1, cleanup[1].decorations, <<>>).model]

\* The callback of setTimeout(..., 100) in handleEditorDidMount:
\* editor.deltaDecorations([], editableDecorations) for the editableRegions
\* of the handler's closure; the ids returned are dropped.
mountTimer(editor, regions, totalLines) ==
    [editor EXCEPT
       !.model = deltaDecorations(@, 1, <<>>,
                   editableDecorations(validatedRegions(regions, totalLines))).model]

\* t with line p replaced by the line l.
LineChanged(t, p, l) == [t EXCEPT ![p] = l]

\* ------------------------------------------------ lifecycle specification
InitLifecycle ==
    /\ lcode \in TextsUpTo(MaxDoc)
    /\ lregions = parseRegions(lcode)
    /\ leditor = Null
    /\ leffect = Null
    /\ ltimer = Null
    /\ lev = NoEvent
    /\ IdleNumbers
    /\ IdleStore
    /\ IdleCore
    /\ IdleOverlay
    /\ IdleMeta
    /\ IdleViewer
    /\ IdleAuthor

\* onMount: setEditorInstance(editor), after which the guard effect runs
\* for the first time, and the timer is armed.  The editableRegions of the
\* timer are those of the render that made the handler the editor library
\* calls: the first render ([], the initial state) or the latest one.
LifecycleMounted(closure) ==
    /\ leditor = Null
    /\ closure \in {<<>>, lregions}
    /\ LET run == guardEffect(NewEditor, lregions, Len(lcode))
       IN  /\ leditor' = <<run.editor>>
           /\ leffect' = run.cleanup
    /\ ltimer' = <<closure>>
    /\ lev' = [kind |-> "mount"]
    /\ UNCHANGED <<lcode, lregions>>

\* The timer of handleEditorDidMount fires.
LifecycleTimer ==
    /\ ltimer # Null
    /\ leditor' = <<mountTimer(leditor[1], ltimer[1], Len(lcode))>>
    /\ ltimer' = Null
    /\ lev' = [kind |-> "timer"]
    /\ UNCHANGED <<lcode, lregions, leffect>>

\* A text change: before the mount the code prop is replaced; in the
\* mounted editor the user changes line p, a line of a region of the guard.
\* The [code] effect parses the new text and the guard effect is cleaned up
\* and run again (setEditableRegions gets a new array every time).
LifecycleChanged(p, l) ==
    /\ p \in 1..Len(lcode)
    /\ lcode[p] # l
    /\ lcode' = LineChanged(lcode, p, l)
    /\ lregions' = parseRegions(lcode')
    /\ IF leditor = Null
         THEN UNCHANGED <<leditor, leffect>>
         ELSE /\ leditor[1].model.last < MaxDecorationIds
              /\ p \in EditableLines(validatedRegions(lregions, Len(lcode)))
              /\ LET run == guardEffect(guardCleanup(leditor[1], leffect),
                                        lregions', Len(lcode'))
                 IN  /\ leditor' = <<run.editor>>
                     /\ leffect' = run.cleanup
    /\ lev' = [kind |-> "change"]
    /\ UNCHANGED ltimer

NextLifecycle ==
    \/ /\ \/ \E closure \in {<<>>, lregions} : LifecycleMounted(closure)
          \/ LifecycleTimer
          \/ \E p \in 1..MaxDoc, l \in ParseLines : LifecycleChanged(p, l)
       /\ UNCHANGED <<nvars, svars, corevars, ovars, tvars, vvars, wvars>>

SpecLifecycle == InitLifecycle /\ [][NextLifecycle]_vars

\* The regions the guard has to use: those computed last, validated for
\* the model.
CurrentRegions == validatedRegions(lregions, Len(lcode))

\* At most one key-down and one paste listener, both with the regions
\* computed last.
OneGuard ==
    leditor # Null =>
      /\ Cardinality(leditor[1].keyDown) <= 1
      /\ Cardinality(leditor[1].paste) <= 1
      /\ \A h \in leditor[1].keyDown \cup leditor[1].paste :
           h.regions = CurrentRegions

\* Every editable-region decoration on the model is that of a current
\* region.
NoStaleDecoration ==
    leditor # Null =>
      \A d \in leditor[1].model.decorations :
        d.options.className = "editable-region"
          => \E i \in 1..Len(CurrentRegions) :
               /\ d.options.startLine = CurrentRegions[i].start
               /\ d.options.endLine = CurrentRegions[i].end

====
